---- MODULE Spec2Model ----
(***************************************************************************)
(* Plan execution engine of lebot (src/agent.py, class AWSAgent): the      *)
(* Plan Runner / Compensator (run), the Step Executor                      *)
(* (get_data_with_tools) and the final summarization (summarize_actions).  *)
(* LLM responses and tool results are inputs drawn from small sets.  An    *)
(* LLM narration is an uninterpreted value naming the prompt that produced *)
(* it and the text the prompt was given.  The remote command channel       *)
(* (src/tools/session.py, class PersistentSSMSession) is modelled by       *)
(* execute_command and its handlers, with what the instance does with     *)
(* each job as an input; SpecChannel runs one session alone, SpecPoll     *)
(* the status polling of one job, SpecRemote the runner over run_command  *)
(* results, SpecTasks three runs in flight together, and SpecConstruct the *)
(* conda environment of a new session.                                     *)
(***************************************************************************)
EXTENDS Integers, Sequences, FiniteSets, TLC

\* ------------------------------------------------------------------ bounds
MaxSteps == 2
MaxRuns == 2
MaxChain == 2

Users == {"u1", "u2"}

\* ------------------------------------------------- ordered dictionaries
\* A Python dict is a sequence of <<key, value>> pairs in insertion order.
Keys(d) == {d[n][1] : n \in 1..Len(d)}

HasKey(d, key) == key \in Keys(d)

Get(d, key) == d[CHOOSE n \in 1..Len(d) : d[n][1] = key][2]

\* d[key] = value: an existing key keeps its position, a new key goes last
Put(d, key, value) ==
    IF HasKey(d, key)
    THEN [n \in 1..Len(d) |-> IF d[n][1] = key THEN <<key, value>> ELSE d[n]]
    ELSE Append(d, <<key, value>>)

\* --------------------------------------------------- Plan Compiler output
GoodStep == << <<"tool", "run_command">>, <<"command", "mkdir test">>,
               <<"description", "Creating the test directory.">> >>

NoDescStep == << <<"tool", "run_command">>, <<"command", "ls">> >>

NoToolStep == << <<"command", "ls">>, <<"description", "Listing files.">> >>

StepPool == {GoodStep, NoDescStep, NoToolStep}

RECURSIVE SeqsUpTo(_, _)
SeqsUpTo(S, n) ==
    IF n = 0 THEN {<< >>}
    ELSE LET shorter == SeqsUpTo(S, n - 1)
         IN  shorter \cup {Append(s, x) : s \in {t \in shorter : Len(t) = n - 1}, x \in S}

\* The raw text returned by extract_plan, with the value json.loads gives it
\* ("raises" when the text is not JSON; None is the empty text).
PlanResponses ==
    {[text |-> "", parses |-> FALSE, value |-> << >>],
     [text |-> "[]", parses |-> TRUE, value |-> << >>],
     [text |-> "[ ]", parses |-> TRUE, value |-> << >>],
     [text |-> "not json", parses |-> FALSE, value |-> << >>]}
    \cup {[text |-> "array", parses |-> TRUE, value |-> p] :
              p \in SeqsUpTo(StepPool, MaxSteps) \ {<< >>}}

\* ------------------------------------------------ inverse-synthesis output
UndoStep == << <<"tool", "run_command">>, <<"command", "rm -rf test">>,
               <<"description", "Removing the test directory.">> >>

UndoResponses ==
    {[text |-> "{}", parses |-> TRUE, value |-> << >>],
     [text |-> "{ }", parses |-> TRUE, value |-> << >>],
     [text |-> "not json", parses |-> FALSE, value |-> << >>],
     [text |-> "object", parses |-> TRUE, value |-> UndoStep]}

\* ------------------------------------------------------------ Step Executor
ToolNames == {"start_instance", "run_command", "setup_github_project",
              "run_github_project"}

tools_to_functions == ToolNames

\* the function named by the first tool call of the LLM response
FunctionNames == ToolNames \cup {"bogus"}

Results == {"out"}

\* value of the "successful" field of the judgment JSON: a JSON string, a
\* JSON boolean, or no such field
JudgmentValues == {"str:True", "str:False", "bool:true", "bool:false",
                   "str:maybe", "missing"}

StepInputs == [fn : FunctionNames, result : Results, judgment : JudgmentValues]

\* mutant: the fields are rendered as the dictionary holds them
create_tool_str_DictOrder(tool) ==
    [n \in 1..Len(tool) |->
        IF tool[n][1] = "tool" THEN <<"Function", tool[n][2]>> ELSE tool[n]]

\* the lines of the text: "Function: {tool['tool']}", then "key: value" for
\* every other key of the dictionary, in its order
create_tool_str(tool) ==
    << <<"Function", Get(tool, "tool")>> >>
        \o SelectSeq(tool, LAMBDA kv : kv[1] # "tool")

\* the response of a narration LLM call: the prompt and the text under it
Narrate(prompt, text) == << <<prompt, "">> >> \o text

\* mutant: any value of the field is accepted
AllowedJudgments_Any == JudgmentValues

\* `if tool_success not in ["True", "False"]: raise`: the two strings
AllowedJudgments == {"str:True", "str:False"}

\* mutant: the test is inverted
IsFailure_Inverted(judgment) == judgment = "str:True"

\* `if tool_success == "False":` selects the failure narration
IsFailure(judgment) == judgment = "str:False"

Raised(site, tool, events) ==
    [raised |-> TRUE, site |-> site, narration |-> << >>, record |-> << >>,
     succeeded |-> FALSE, tool |-> tool, events |-> events, invoked |-> "none"]

\* events are <<kind, value>>: the tool invocation with its result, the
\* judgment call with the value of its "successful" field, the narration
\* call, and the boolean returned
get_data_with_tools(tool, inp) ==
    IF ~HasKey(tool, "tool") THEN Raised("render", tool, << >>)
    ELSE IF inp.fn \notin tools_to_functions THEN Raised("dispatch", tool, << >>)
    ELSE LET tool2 == Put(tool, "request result", inp.result)
             final_tool_str == create_tool_str(tool2)
             called == << <<"tool", inp.result>>, <<"judge", inp.judgment>> >>
         IN  IF inp.judgment \notin AllowedJudgments
             THEN [Raised("judgment", tool2, called) EXCEPT !.invoked = inp.fn]
             ELSE IF IsFailure(inp.judgment)
             THEN [raised |-> FALSE, site |-> "none",
                   narration |-> Narrate("SUMMARIZE_TOOL_FAILURE_PROMPT", final_tool_str),
                   record |-> final_tool_str, succeeded |-> FALSE, tool |-> tool2,
                   invoked |-> inp.fn,
                   events |-> called \o << <<"narrate_failure", "">>,
                                            <<"return", "false">> >>]
             ELSE [raised |-> FALSE, site |-> "none",
                   narration |-> Narrate("SUMMARIZE_TOOL_USE_PROMPT", final_tool_str),
                   record |-> final_tool_str, succeeded |-> TRUE, tool |-> tool2,
                   invoked |-> inp.fn,
                   events |-> called \o << <<"narrate_success", "">>,
                                            <<"return", "true">> >>]

\* ---------------------------------------------------- remote status polling
max_retries == 10
sleep_time == 3
SleepCap == 15

TerminalStatuses == {"Success", "Failed", "Cancelled", "TimedOut"}

\* what one get_command_invocation of the polling loop gives: a status, or
\* "raises" when the query throws
Statuses == TerminalStatuses \cup {"InProgress", "raises"}

Min(a, b) == IF a < b THEN a ELSE b

\* mutant: the backoff is not capped
Backoff_Uncapped(a) == sleep_time * 2 ^ a

\* time.sleep(min(sleep_time * (2**attempt), 15))
Backoff(a) == Min(sleep_time * 2 ^ a, SleepCap)

PollStart == [attempt |-> 0, polled |-> << >>, waited |-> "polling"]

\* one iteration of `for attempt in range(max_retries)`, the status query
\* giving `status`; leaving the loop returns False
PollStep(st, status) ==
    IF status \in TerminalStatuses
    THEN [attempt |-> st.attempt + 1,
          polled |-> Append(st.polled, [status |-> status, slept |-> 0]),
          waited |-> "true"]
    ELSE [attempt |-> st.attempt + 1,
          polled |-> Append(st.polled,
                       [status |-> status,
                        slept |-> IF status = "raises" THEN sleep_time
                                  ELSE Backoff(st.attempt)]),
          waited |-> IF st.attempt + 1 < max_retries THEN "polling" ELSE "false"]

RECURSIVE PollFrom(_, _)
PollFrom(st, statuses) ==
    IF st.waited # "polling" \/ statuses = << >> THEN st
    ELSE PollFrom(PollStep(st, Head(statuses)), Tail(statuses))

\* _wait_for_command on a job whose status queries give `statuses` in turn
wait_for_command(statuses) == PollFrom(PollStart, statuses)

\* ---------------------------------------------------- remote command channel
\* A command is a sequence of tokens: words, " " for white space, "=" and
\* "&&".
RECURSIVE LStrip(_)
LStrip(cmd) ==
    IF cmd # << >> /\ Head(cmd) = " " THEN LStrip(Tail(cmd)) ELSE cmd

RECURSIVE RStrip(_)
RStrip(cmd) ==
    IF cmd # << >> /\ cmd[Len(cmd)] = " "
    THEN RStrip(SubSeq(cmd, 1, Len(cmd) - 1)) ELSE cmd

\* str.strip()
Strip(cmd) == RStrip(LStrip(cmd))

\* str.split(sep): the pieces between the separators, empty ones included
RECURSIVE SplitOn(_, _)
SplitOn(cmd, sep) ==
    IF \A n \in 1..Len(cmd) : cmd[n] # sep THEN << cmd >>
    ELSE LET k == CHOOSE n \in 1..Len(cmd) :
                     cmd[n] = sep /\ \A m \in 1..(n - 1) : cmd[m] # sep
         IN  << SubSeq(cmd, 1, k - 1) >> \o SplitOn(SubSeq(cmd, k + 1, Len(cmd)), sep)

\* [cmd.strip() for cmd in command.split("&&") if cmd.strip()]
SubCommands(raw) ==
    LET pieces == SplitOn(raw, "&&")
    IN  SelectSeq([n \in 1..Len(pieces) |-> Strip(pieces[n])],
                  LAMBDA c : c # << >>)

\* str.startswith(prefix)
StartsWith(cmd, prefix) ==
    Len(cmd) >= Len(prefix) /\ SubSeq(cmd, 1, Len(prefix)) = prefix

Contains(cmd, token) == \E n \in 1..Len(cmd) : cmd[n] = token

EchoPrefixes == {<<"export", " ">>, <<"echo", " ">>, <<"printf", " ">>}

\* the if / elif / else of execute_command
Route(cmd) ==
    IF StartsWith(cmd, <<"cd", " ">>) THEN "cd"
    ELSE IF Contains(cmd, "=") /\ \A pre \in EchoPrefixes : ~StartsWith(cmd, pre)
    THEN "env"
    ELSE "normal"

\* the text of a token sequence
RECURSIVE Text(_)
Text(cmd) == IF cmd = << >> THEN "" ELSE Head(cmd) \o Text(Tail(cmd))

\* the status queries of a job that ends at once, and of one that is still
\* running when polling gives up
StatusRuns == {<<"Success">>, [n \in 1..max_retries |-> "InProgress"]}

\* What the remote side does with a job: send_command or the closing
\* get_command_invocation throws (raises), or the status queries give
\* `statuses` and the job, once over, has printed according to `remote`:
\* for an existence probe "exists", "missing" or "denied" (the directory is
\* there but cannot be entered), for any other job its output.
Outcome(raises, statuses, remote) ==
    [raises |-> raises, statuses |-> statuses, remote |-> remote]

Thrown == Outcome(TRUE, << >>, "")

CdOutcomes ==
    {Outcome(FALSE, st, d) : st \in StatusRuns, d \in {"exists", "missing", "denied"}}
        \cup {Thrown}

EnvOutcomes == {Outcome(FALSE, <<"Success">>, ""), Thrown}

NormalOutcomes == {Outcome(FALSE, st, "out") : st \in StatusRuns} \cup {Thrown}

OutcomesFor(cmd) ==
    IF Route(cmd) = "cd" THEN CdOutcomes
    ELSE IF Route(cmd) = "env" THEN EnvOutcomes
    ELSE NormalOutcomes

JobOver(o) == wait_for_command(o.statuses).waited = "true"

\* StandardOutputContent of the invocation when it is read, right after
\* _wait_for_command returns: nothing while the job is not over
StandardOutputContent(o, printed) == IF JobOver(o) THEN printed ELSE ""

\* what the probe script prints for the absolute path `dir_path`
ProbePrints(dir_path, o) ==
    IF o.remote = "exists" THEN Text(dir_path)
    ELSE IF o.remote = "missing" THEN "Directory not found"
    ELSE ""

\* a job sent to the instance: the directory and the assignments its shell
\* text names, and the command
Job(kind, cwd, env, command) ==
    [kind |-> kind, cwd |-> cwd, env |-> env, command |-> command]

Handled(sess, result, job, raised) ==
    [session |-> sess, result |-> result, job |-> job, raised |-> raised]

\* _handle_cd_command: the return value of _wait_for_command is not looked
\* at, and any output other than the sentinel becomes current_directory
handle_cd_command(sess, cmd, o) ==
    LET dir_path == Strip(SubSeq(cmd, 3, Len(cmd)))
        job == Job("probe", sess.current_directory, << >>, dir_path)
        result == StandardOutputContent(o, ProbePrints(dir_path, o))
    IN  IF o.raises THEN Handled(sess, "", job, TRUE)
        ELSE IF result # "Directory not found"
        THEN Handled([sess EXCEPT !.current_directory = result,
                                  !.command_history = Append(@, cmd)],
                     "Changed to directory: " \o result, job, FALSE)
        ELSE Handled(sess, "Directory not found", job, FALSE)

\* var_name, var_value = command.strip().split("=", 1)
FirstEquals(cmd) ==
    CHOOSE n \in 1..Len(cmd) : cmd[n] = "=" /\ \A m \in 1..(n - 1) : cmd[m] # "="

AssignedName(cmd) == Text(SubSeq(cmd, 1, FirstEquals(cmd) - 1))

AssignedValue(cmd) == Text(SubSeq(cmd, FirstEquals(cmd) + 1, Len(cmd)))

\* _handle_env_var_setting: the mapping is updated
\* before the remote job is sent, and an exception is turned into text
handle_env_var_setting(sess, cmd, o) ==
    LET var_name == AssignedName(cmd)
        var_value == AssignedValue(cmd)
        sess1 == [sess EXCEPT !.environment_vars = Put(@, var_name, var_value)]
        job == Job("echo", sess.current_directory, << >>, cmd)
    IN  IF o.raises
        THEN Handled(sess1, "Error setting environment variable", job, FALSE)
        ELSE Handled([sess1 EXCEPT !.command_history = Append(@, cmd)],
                     "Set environment variable " \o var_name \o "=" \o var_value,
                     job, FALSE)

\* mutant: the assignments are left out of the job
EnvPrefix_Dropped(environment_vars) == << >>

\* " ".join([f"{k}='{v}'" for k, v in self.environment_vars.items()])
EnvPrefix(environment_vars) == environment_vars

\* _execute_normal_command: the job runs under `cd current_directory` and
\* the k='v' assignments of environment_vars; the return value of
\* _wait_for_command is not looked at
execute_normal_command(sess, cmd, o) ==
    LET job == Job("conda", sess.current_directory,
                   EnvPrefix(sess.environment_vars), cmd)
    IN  IF o.raises THEN Handled(sess, "Error executing command", job, FALSE)
        ELSE Handled([sess EXCEPT !.command_history = Append(@, cmd)],
                     StandardOutputContent(o, o.remote), job, FALSE)

Handle(sess, cmd, o) ==
    IF Route(cmd) = "cd" THEN handle_cd_command(sess, cmd, o)
    ELSE IF Route(cmd) = "env" THEN handle_env_var_setting(sess, cmd, o)
    ELSE execute_normal_command(sess, cmd, o)

\* "\n".join(results)
RECURSIVE JoinLines(_)
JoinLines(results) ==
    IF Len(results) <= 1 THEN results
    ELSE << Head(results), "\n" >> \o JoinLines(Tail(results))

\* mutant: the loop stops at a sub-command that did not find its directory
LoopGoesOn_StopOnNotFound(result, raised) ==
    ~raised /\ result # "Directory not found"

\* `for cmd in commands:` goes on whatever a sub-command returned; only an
\* exception leaves it
LoopGoesOn(result, raised) == ~raised

\* the loop of execute_command from sub-command n on
RECURSIVE ExecFrom(_, _, _, _)
ExecFrom(st, commands, outs, n) ==
    IF n > Len(commands) THEN st
    ELSE LET h == Handle(st.session, commands[n], outs[n])
             entry == [cmd |-> commands[n], route |-> Route(commands[n]),
                       outcome |-> outs[n], before |-> st.session,
                       after |-> h.session, job |-> h.job, result |-> h.result]
             st2 == [session |-> h.session, log |-> Append(st.log, entry),
                     raised |-> h.raised]
         IN  IF LoopGoesOn(h.result, h.raised)
             THEN ExecFrom(st2, commands, outs, n + 1)
             ELSE st2

\* execute_command(command) on the session `sess`, the remote side doing
\* outs[n] with the job of the n-th sub-command
execute_command(sess, raw, outs) ==
    LET st == ExecFrom([session |-> sess, log |-> << >>, raised |-> FALSE],
                       SubCommands(raw), outs, 1)
    IN  [session |-> st.session,
         call |-> [raw |-> raw, log |-> st.log, raised |-> st.raised,
                   returned |-> IF st.raised THEN << >>
                                ELSE JoinLines([n \in 1..Len(st.log) |->
                                                    st.log[n].result])]]

\* ------------------------------------------------------------------- state
VARIABLES
    user_state_dict,  \* user -> [present, memory]
    runs,             \* requests handled so far
    pc,               \* position of the run in flight
    author,           \* message.author of the run in flight
    tool_calls,       \* the parsed plan
    i,                \* forward loop index (0-based)
    j,                \* compensation loop index (0-based)
    step_summaries,
    step_memory,
    tool_success,
    undo_failures,
    fwdLog,           \* 1-based indices of the forward Step Executor calls
    undoLog,          \* inverse-synthesis calls: [idx, text]
    execLog,          \* Step Executor events: [src, idx, ev, val]
    sumCalls,         \* summarization LLM calls: [prompt, messages]
    replies,          \* message.reply calls of the run: [kind, body]
    err,              \* site of the exception that ended the run, or "none"
    escaped,          \* an exception left run()
    mem0,             \* every user's memory when the run started
    plan,             \* raw text of the Plan Compiler's response, or "none"
    thread,           \* message.create_thread has been called in this run
    sessions,         \* user -> the PersistentSSMSession registered for them
    created,          \* user -> PersistentSSMSession objects constructed
    call,             \* the last execute_command call and what it did
    attempt,          \* _wait_for_command: status queries made so far
    polled,           \* _wait_for_command: [status, slept] of each query (slept 0: none)
    waited,           \* _wait_for_command: "polling", "true" or "false"
    tasks,            \* task -> the run() coroutine it executes
    posted,           \* a narration and the messages it was posted as
    setup,            \* one setup_github_project call and what it did
    executed,         \* one get_data_with_tools call and what it returned
    environment       \* the conda environment of one session on the instance

vars == <<user_state_dict, runs, pc, author, tool_calls, i, j, step_summaries,
          step_memory, tool_success, undo_failures, fwdLog, undoLog,
          execLog, sumCalls, replies, err, escaped, mem0, plan, thread,
          sessions, created, call, attempt, polled, waited, tasks, posted,
          setup, executed, environment>>

\* state of the remote command channel, of status polling and of the
\* concurrent tasks
channelVars == <<call, attempt, polled, waited, tasks, posted, setup, executed,
                 environment>>

\* the calls examined on their own
pureVars == <<posted, setup, executed, environment>>

runLocals == <<tool_calls, i, j, step_summaries, step_memory, tool_success,
               undo_failures, fwdLog, undoLog, execLog, sumCalls>>

NoBody == [prompt |-> "", steps |-> << >>]

Reply(kind) == [kind |-> kind, body |-> NoBody]

\* ---------------------------------------------------------- PersistentSSMSession
NoSession == [current_directory |-> "none", environment_vars |-> << >>,
              command_history |-> << >>]

\* __init__: initialize_directory leaves current_directory at the user's home
NewSession(u) == [current_directory |-> "/home/" \o u,
                  environment_vars |-> << >>, command_history |-> << >>]

\* What the instance does with the jobs of __init__: initialize_directory
\* finds the user ("exists"), adds it ("added"), sees adduser fail
\* ("adduser_failed", printed), or a boto3 call throws ("raises");
\* initialize_conda finds the environment ("exists"), sends the job that
\* creates it without waiting for it ("create_sent"), or a boto3 call throws.
InitOutcomes ==
    [directory : {"exists", "added", "adduser_failed", "raises"},
     conda : {"exists", "create_sent", "raises"}]

\* PersistentSSMSession(message.author) returns an object: neither
\* initialize_directory nor initialize_conda has a try, so a boto3
\* exception in either leaves the constructor
Constructs(init) == init.directory # "raises" /\ init.conda # "raises"

NoCall == [raw |-> << >>, log |-> << >>, returned |-> << >>, raised |-> FALSE]

Tasks == {"t1", "t2", "t3"}

\* a run() coroutine: its message.author, where it is, the Step Executor
\* calls it still has to make, the memory list handed to the Plan Compiler,
\* whether an exception ended it, the rendering of that memory in the
\* system prompt, and, inside a tool function, its command and the status
\* queries already made for its job
NoTask == [author |-> "u1", pc |-> "idle", left |-> 0, seen |-> << >>,
           failed |-> FALSE, prompt |-> << >>, raw |-> << >>, polls |-> 0]

\* nothing posted, no setup call and no Step Executor call looked at yet
NoPost == [site |-> "none", tool_response |-> << >>, undo_failures |-> FALSE,
           messages |-> << >>, sent |-> FALSE]

NoSetup == [pc |-> "none"]

\* no session constructed yet
NoEnvironment == [pc |-> "none"]

NoStepCall == [pc |-> "none"]

Init ==
    /\ user_state_dict = [u \in Users |-> [present |-> FALSE, memory |-> << >>]]
    /\ runs = 0
    /\ pc = "idle"
    /\ author = "u1"
    /\ tool_calls = << >>
    /\ i = 0
    /\ j = 0
    /\ step_summaries = << >>
    /\ step_memory = << >>
    /\ tool_success = TRUE
    /\ undo_failures = FALSE
    /\ fwdLog = << >>
    /\ undoLog = << >>
    /\ execLog = << >>
    /\ sumCalls = << >>
    /\ replies = << >>
    /\ err = "none"
    /\ escaped = FALSE
    /\ mem0 = [u \in Users |-> << >>]
    /\ plan = "none"
    /\ thread = FALSE
    /\ sessions = [u \in Users |-> NoSession]
    /\ created = [u \in Users |-> 0]
    /\ call = NoCall
    /\ attempt = 0
    /\ polled = << >>
    /\ waited = "polling"
    /\ tasks = [t \in Tasks |-> NoTask]
    /\ posted = NoPost
    /\ setup = NoSetup
    /\ executed = NoStepCall
    /\ environment = NoEnvironment

\* mutant: the session is created before the try block
Caught_SessionOutside(site) == site # "session"

\* ------------------------------------------------- top-level handler
\* the try block of run() covers every statement of the body
Caught(site) == TRUE

\* mutant: the exception is swallowed inside the loop and the run goes on
\* to the memory append
Raise_ThenAppend(site, sent) ==
    /\ pc' = "append"
    /\ err' = site
    /\ replies' = Append(sent, Reply("error")) /\ escaped' = escaped

\* an exception raised at `site` after the replies `sent`: the except clause
\* replies with the generic failure acknowledgment and run() returns
Raise(site, sent) ==
    /\ pc' = "done"
    /\ err' = site
    /\ IF Caught(site)
       THEN replies' = Append(sent, Reply("error")) /\ escaped' = escaped
       ELSE replies' = sent /\ escaped' = TRUE

\* mutant: the compensation branch is taken after every step
EntersCompensation_Always(succeeded) == TRUE

\* ------------------------------------------------- decisions of the runner
\* `if not tool_success:` selects the compensation branch
EntersCompensation(succeeded) == ~succeeded

\* mutant: range(i - 1, -1, -1) leaves the failed step out
UndoStart_SkipFailed(idx) == idx - 1

\* range(i, -1, -1): compensation starts at the failed step itself
UndoStart(idx) == idx

\* mutant: a failed inverse step breaks out of the compensation loop
UndoNext_AbortOnFailure(jj, succeeded) == IF succeeded THEN jj - 1 ELSE -1

\* the compensation loop steps down by one whatever the inverse step gave
UndoNext(jj, succeeded) == jj - 1

\* mutant: the empty object is not recognised
IsNoOp_Never(text) == FALSE

\* `if undo_tool == "{}":` compares the raw response text
IsNoOp(text) == text = "{}"

\* mutant: the flag follows the last inverse step only
UndoFlag_LastOnly(flag, succeeded) == ~succeeded

\* `undo_failures = True` under `if not undo_tool_success:`
UndoFlag(flag, succeeded) == flag \/ ~succeeded

\* mutant: the inverse step's narration is folded into step_memory
CompensationMemory_Folded(memory_so_far, narration) ==
    Append(memory_so_far, [mark |-> "undo", step |-> 0, narr |-> narration])

\* the compensation branch never touches step_memory: an inverse step's
\* narration goes to the thread only
CompensationMemory(memory_so_far, narration) == memory_so_far

\* mutant: no `break`, the forward loop goes on with the next step
LoopAfterFailure_NoBreak(idx, n) == idx + 1

\* `break` after compensation: the forward loop is left
LoopAfterFailure(idx, n) == n

\* mutant: the append sits inside the loop, one entry per step
MemoryAppend_PerStep(memory, entry) ==
    memory \o [n \in 1..Len(entry) |-> <<entry[n]>>]

\* memory[author].append(step_memory), once, after the loop
MemoryAppend(memory, entry) == Append(memory, entry)

\* mutant: a session is constructed for every request
NeedsSession_Always(present) == TRUE

\* `if message.author not in self.user_state_dict:`
NeedsSession(present) == ~present

\* mutant: one session object serves every user
SessionOf_Shared(u) == "u1"

\* `self.user_state_dict[message.author]`: the state a run works on is the
\* one registered under its own author
SessionOf(u) == u

\* mutant: only the empty string short-circuits
NoPlan_OnlyEmpty(text) == text = ""

\* `if not plan or plan == "[]":`
NoPlan(text) == text = "" \/ text = "[]"

Tag(src, idx, events) ==
    [n \in 1..Len(events) |->
        [src |-> src, idx |-> idx, ev |-> events[n][1], val |-> events[n][2]]]

PositionAfter(idx, n) == IF idx < n THEN "step" ELSE "append"

\* ------------------------------------------------------------ summarization
LLMSummary(prompt, messages) == [prompt |-> prompt, steps |-> messages]

\* the LLM calls summarize_actions makes, in order; its return value is the
\* response of the last one
summarize_actions(messages, success) ==
    IF success
    THEN << [prompt |-> "FINAL_SUMMARY_PROMPT", messages |-> messages] >>
    ELSE << [prompt |-> "FINAL_SUMMARY_PROMPT", messages |-> messages],
            [prompt |-> "FAILURE_FINAL_SUMMARY_PROMPT", messages |-> messages] >>

\* mutant: a rollback without errors is reported as a completed task
FinalReplies_ByRollback(final_response, success, undoFailed) ==
    IF success \/ ~undoFailed
    THEN << [kind |-> "completed", body |-> final_response], Reply("details") >>
    ELSE << [kind |-> "failure", body |-> final_response], Reply("rollback_errors") >>

\* the replies of lines 445-491, by `if tool_success:` / `if not tool_success:`
FinalReplies(final_response, success, undoFailed) ==
    IF success
    THEN << [kind |-> "completed", body |-> final_response], Reply("details") >>
    ELSE << [kind |-> "failure", body |-> final_response],
            IF undoFailed THEN Reply("rollback_errors") ELSE Reply("rollback_clean") >>

\* ------------------------------------------------------------------ actions
\* run(), lines 333-343: the session of a new author is created, then the
\* run waits for the Plan Compiler
Request(u) ==
    /\ pc \in {"idle", "done"}
    /\ runs < MaxRuns
    /\ runs' = runs + 1
    /\ author' = u
    /\ mem0' = [v \in Users |-> user_state_dict[v].memory]
    /\ tool_calls' = << >> /\ i' = 0 /\ j' = 0
    /\ step_summaries' = << >> /\ step_memory' = << >>
    /\ tool_success' = TRUE /\ undo_failures' = FALSE
    /\ fwdLog' = << >> /\ undoLog' = << >> /\ execLog' = << >> /\ sumCalls' = << >>
    /\ plan' = "none" /\ thread' = FALSE
    /\ UNCHANGED channelVars
    /\ \E init \in InitOutcomes :
          IF ~NeedsSession(user_state_dict[u].present)
          THEN /\ UNCHANGED <<user_state_dict, sessions, created>>
               /\ pc' = "plan" /\ err' = "none" /\ replies' = << >>
               /\ escaped' = escaped
          ELSE IF Constructs(init)
          THEN /\ user_state_dict' = [user_state_dict EXCEPT ![u].present = TRUE]
               /\ sessions' = [sessions EXCEPT ![u] = NewSession(u)]
               /\ created' = [created EXCEPT ![u] = @ + 1]
               /\ pc' = "plan" /\ err' = "none" /\ replies' = << >>
               /\ escaped' = escaped
          ELSE /\ UNCHANGED <<user_state_dict, sessions, created>>
               /\ Raise("session", << >>)

\* run(), lines 343-363: the plan text is examined and parsed
ExtractPlan ==
    /\ pc = "plan"
    /\ UNCHANGED <<user_state_dict, runs, author, mem0, j, step_summaries,
                   step_memory, tool_success, undo_failures, fwdLog,
                   undoLog, execLog, sumCalls, sessions, created>>
    /\ UNCHANGED channelVars
    /\ \/ /\ Raise("plan", replies)
          /\ UNCHANGED <<tool_calls, i, plan, thread>>
       \/ \E r \in PlanResponses :
             /\ plan' = r.text
             /\ IF NoPlan(r.text)
                THEN /\ replies' = Append(replies, Reply("notask"))
                     /\ pc' = "done"
                     /\ UNCHANGED <<tool_calls, i, err, escaped, thread>>
                ELSE IF ~r.parses
                THEN /\ Raise("json", replies)
                     /\ UNCHANGED <<tool_calls, i, thread>>
                ELSE /\ tool_calls' = r.value
                     /\ thread' = TRUE
                     /\ i' = 0
                     /\ pc' = PositionAfter(0, Len(r.value))
                     /\ UNCHANGED <<replies, err, escaped>>

\* mutant: the failed step is added to the summaries like a successful one
FailedStepSummaries_Added(summaries, record, narration) ==
    summaries \o <<record, narration>>

\* lines 379-381: the branch of a failed step appends nothing to step_summaries
FailedStepSummaries(summaries, record, narration) == summaries

\* run(), lines 371-381 and 425-436: one iteration of the forward loop
ForwardStepWith(inputs) ==
    /\ pc = "step"
    /\ UNCHANGED <<plan, thread, sessions, created>>
    /\ UNCHANGED channelVars
    /\ UNCHANGED <<user_state_dict, runs, author, mem0, undoLog, sumCalls,
                   undo_failures>>
    /\ LET tool == tool_calls[i + 1]
       IN  IF ~HasKey(tool, "description")
           THEN /\ Raise("description", replies)
                /\ UNCHANGED <<tool_calls, i, j, step_summaries, step_memory,
                               tool_success, fwdLog, execLog>>
           ELSE \E inp \in inputs :
                LET r == get_data_with_tools(tool, inp)
                IN  /\ fwdLog' = Append(fwdLog, i + 1)
                    /\ execLog' = execLog \o Tag("fwd", i + 1, r.events)
                    /\ tool_calls' = [tool_calls EXCEPT ![i + 1] = r.tool]
                    /\ IF r.raised
                       THEN /\ Raise(r.site, replies)
                            /\ UNCHANGED <<i, j, step_summaries, step_memory,
                                           tool_success>>
                       ELSE /\ tool_success' = r.succeeded
                            /\ UNCHANGED <<replies, err, escaped>>
                            /\ IF EntersCompensation(r.succeeded)
                               THEN /\ step_memory' = Append(step_memory,
                                          [mark |-> "failed", step |-> i + 1,
                                           narr |-> r.narration])
                                    /\ j' = UndoStart(i)
                                    /\ IF UndoStart(i) >= 0
                                       THEN pc' = "undo" /\ i' = i
                                       ELSE /\ i' = LoopAfterFailure(i, Len(tool_calls))
                                            /\ pc' = PositionAfter(i', Len(tool_calls))
                                    /\ step_summaries' = FailedStepSummaries(
                                          step_summaries, r.record, r.narration)
                               ELSE /\ step_memory' = Append(step_memory,
                                          [mark |-> "ok", step |-> i + 1,
                                           narr |-> r.narration])
                                    /\ step_summaries' = step_summaries
                                          \o <<r.record, r.narration>>
                                    /\ i' = i + 1
                                    /\ pc' = PositionAfter(i + 1, Len(tool_calls))
                                    /\ UNCHANGED j

ForwardStep == ForwardStepWith(StepInputs)

\* run(), lines 383-423: one iteration of the compensation loop; leaving the
\* loop at its last index includes the `break` of line 423
CompensateWith(inputs) ==
    /\ pc = "undo"
    /\ UNCHANGED <<plan, thread, sessions, created>>
    /\ UNCHANGED channelVars
    /\ UNCHANGED <<user_state_dict, runs, author, mem0, sumCalls, tool_calls,
                   step_summaries, tool_success, fwdLog>>
    /\ \E resp \in UndoResponses :
          /\ undoLog' = Append(undoLog, [idx |-> j + 1, text |-> resp.text])
          /\ IF IsNoOp(resp.text)
             THEN /\ j' = j - 1
                  /\ i' = IF j' < 0 THEN LoopAfterFailure(i, Len(tool_calls)) ELSE i
                  /\ pc' = IF j' < 0 THEN PositionAfter(i', Len(tool_calls)) ELSE "undo"
                  /\ UNCHANGED <<undo_failures, execLog, replies, err, escaped,
                                 step_memory>>
             ELSE IF ~resp.parses
             THEN /\ Raise("json", replies)
                  /\ UNCHANGED <<i, j, undo_failures, execLog, step_memory>>
             ELSE \E inp \in inputs :
                  LET r == get_data_with_tools(resp.value, inp)
                  IN  /\ execLog' = execLog \o Tag("undo", j + 1, r.events)
                      /\ IF r.raised
                         THEN /\ Raise(r.site, replies)
                              /\ UNCHANGED <<i, j, undo_failures, step_memory>>
                         ELSE /\ undo_failures' = UndoFlag(undo_failures, r.succeeded)
                              /\ step_memory' = CompensationMemory(step_memory,
                                                                    r.narration)
                              /\ j' = UndoNext(j, r.succeeded)
                              /\ i' = IF j' < 0 THEN LoopAfterFailure(i, Len(tool_calls))
                                      ELSE i
                              /\ pc' = IF j' < 0 THEN PositionAfter(i', Len(tool_calls))
                                       ELSE "undo"
                              /\ UNCHANGED <<replies, err, escaped>>

Compensate == CompensateWith(StepInputs)

\* run(), line 438: the run's memory entry is appended to the author's memory
LoopExit ==
    /\ pc = "append"
    /\ UNCHANGED <<plan, thread, sessions, created>>
    /\ UNCHANGED channelVars
    /\ user_state_dict' = [user_state_dict EXCEPT
          ![author].memory = MemoryAppend(@, step_memory)]
    /\ pc' = "summarize"
    /\ UNCHANGED <<runs, author, mem0, replies, err, escaped>>
    /\ UNCHANGED runLocals

\* run(), lines 440-491: final summarization and the replies to the user
Summarize ==
    /\ pc = "summarize"
    /\ UNCHANGED <<plan, thread, sessions, created>>
    /\ UNCHANGED channelVars
    /\ UNCHANGED <<user_state_dict, runs, author, mem0, tool_calls, i, j,
                   step_summaries, step_memory, tool_success, undo_failures,
                   fwdLog, undoLog, execLog>>
    /\ \/ /\ Raise("summarize", replies)
          /\ UNCHANGED sumCalls
       \/ LET calls == summarize_actions(step_summaries, tool_success)
              last == calls[Len(calls)]
              final_response == LLMSummary(last.prompt, last.messages)
          IN  /\ sumCalls' = sumCalls \o calls
              /\ replies' = replies \o FinalReplies(final_response, tool_success,
                                                    undo_failures)
              /\ pc' = "done"
              /\ UNCHANGED <<err, escaped>>

Next ==
    \/ \E u \in Users : Request(u)
    \/ ExtractPlan
    \/ ForwardStep
    \/ Compensate
    \/ LoopExit
    \/ Summarize

Spec == Init /\ [][Next]_vars

\* ------------------------------------- the runner over the remote channel
\* what run_command returns for a one-command request, by what the remote
\* side does with its job
RemoteResults ==
    {execute_normal_command(NewSession("u1"), <<"ls">>, o).result :
        o \in {x \in NormalOutcomes : ~x.raises}}

\* the Step Executor's inputs when every step is a run_command
RemoteStepInputs ==
    [fn : {"run_command"}, result : RemoteResults, judgment : JudgmentValues]

ForwardStepRemote == ForwardStepWith(RemoteStepInputs)

CompensateRemote == CompensateWith(RemoteStepInputs)

NextRemote ==
    \/ \E u \in Users : Request(u)
    \/ ExtractPlan
    \/ ForwardStepRemote
    \/ CompensateRemote
    \/ LoopExit
    \/ Summarize

SpecRemote == Init /\ [][NextRemote]_vars

\* ------------------------------------------- the channel of one user alone
\* the sub-commands the requests are made of
SegmentPool ==
    {<<"cd", " ", "/srv">>, <<"X", "=", "1">>, <<"X", "=", "2">>,
     <<"export", " ", "Y", "=", "1">>, <<"ls">>,
     <<"pip", " ", "install", " ", "foo", "=", "=", "1">>, <<" ">>, <<"cd">>}

\* sub-commands chained with "&&", white space around the delimiter
RECURSIVE Chain(_)
Chain(segments) ==
    IF Len(segments) = 1 THEN segments[1]
    ELSE segments[1] \o <<" ", "&&", " ">> \o Chain(Tail(segments))

RawCommands == {Chain(g) : g \in SeqsUpTo(SegmentPool, MaxChain) \ {<< >>}}

\* one outcome for the job of each sub-command
RECURSIVE OutcomeSeqs(_)
OutcomeSeqs(commands) ==
    IF commands = << >> THEN {<< >>}
    ELSE {<<o>> \o rest : o \in OutcomesFor(Head(commands)),
                          rest \in OutcomeSeqs(Tail(commands))}

Done == Outcome(FALSE, <<"Success">>, "")

\* sessions a user's earlier calls leave behind: none yet, a directory
\* entered, a variable set, or both
PriorSessions(u) ==
    {NewSession(u)}
    \cup {execute_command(NewSession(u), <<"cd", " ", "/srv">>,
                           <<Outcome(FALSE, <<"Success">>, "exists")>>).session,
          execute_command(NewSession(u), <<"X", "=", "1">>, <<Done>>).session,
          execute_command(NewSession(u),
                          Chain(<< <<"cd", " ", "/srv">>, <<"X", "=", "1">> >>),
                          <<Outcome(FALSE, <<"Success">>, "exists"), Done>>).session}

InitChannel ==
    /\ \E sess \in PriorSessions("u1") :
          sessions = [u \in Users |-> IF u = "u1" THEN sess ELSE NoSession]
    /\ user_state_dict = [u \in Users |-> [present |-> u = "u1", memory |-> << >>]]
    /\ created = [u \in Users |-> IF u = "u1" THEN 1 ELSE 0]
    /\ call = NoCall
    /\ runs = 0 /\ pc = "idle" /\ author = "u1" /\ tool_calls = << >>
    /\ i = 0 /\ j = 0 /\ step_summaries = << >> /\ step_memory = << >>
    /\ tool_success = TRUE /\ undo_failures = FALSE
    /\ fwdLog = << >> /\ undoLog = << >> /\ execLog = << >> /\ sumCalls = << >>
    /\ replies = << >> /\ err = "none" /\ escaped = FALSE
    /\ mem0 = [u \in Users |-> << >>] /\ plan = "none" /\ thread = FALSE
    /\ attempt = 0 /\ polled = << >> /\ waited = "polling"
    /\ tasks = [t \in Tasks |-> NoTask]
    /\ posted = NoPost /\ setup = NoSetup /\ executed = NoStepCall
    /\ environment = NoEnvironment

\* one execute_command call on the session of user u, from its first
\* statement to its return (or to the exception that leaves it)
Execute(u) ==
    /\ call = NoCall
    /\ user_state_dict[u].present
    /\ \E raw \in RawCommands :
          \E outs \in OutcomeSeqs(SubCommands(raw)) :
             LET r == execute_command(sessions[u], raw, outs)
             IN  /\ sessions' = [sessions EXCEPT ![u] = r.session]
                 /\ call' = r.call
    /\ UNCHANGED <<user_state_dict, runs, pc, author, tool_calls, i, j,
                   step_summaries, step_memory, tool_success, undo_failures,
                   fwdLog, undoLog, execLog, sumCalls, replies, err, escaped,
                   mem0, plan, thread, created, attempt, polled, waited, tasks>>
    /\ UNCHANGED pureVars

NextChannel == \E u \in Users : Execute(u)

SpecChannel == InitChannel /\ [][NextChannel]_vars

\* ------------------------------------------------ runs in flight together
\* Each incoming message is its own task (bot.py, on_message); tasks take
\* turns at their await points only; a tool call goes through the status
\* queries of its job while the event loop is inside it.
TaskCommands == {<<"cd", " ", "/srv">>, <<"X", "=", "1">>}

\* status queries of one wait that the tasks model tells apart
MaxPolls == 1

\* tools_to_functions[function_name](**function_params) is a plain call, and
\* _wait_for_command sleeps with time.sleep between boto3 calls: from the
\* call of a tool function to its return the one thread of the event loop
\* is inside it, and no coroutine is resumed
EventLoopFree == \A t \in Tasks : tasks[t].pc # "tool"

\* mutant: an empty memory list is rendered as the empty text
str_memory_Joined(memories) == JoinLines(memories)

\* extract_plan: `str_memory = "None"`, and "\n".join(memories) for a list
\* with entries; the text takes the place of the one occurrence of
\* "memory" in EXTRACT_PLAN_PROMPT
str_memory(memories) ==
    IF memories = << >> THEN <<"None">> ELSE JoinLines(memories)

\* run(), lines 333-343, up to the await of the Plan Compiler: the session
\* of a new author is constructed and registered with no await in between
Start(t, u) ==
    /\ tasks[t].pc = "idle"
    /\ EventLoopFree
    /\ \E init \in InitOutcomes :
          IF ~NeedsSession(user_state_dict[u].present)
          THEN /\ UNCHANGED <<user_state_dict, sessions, created>>
               /\ tasks' = [tasks EXCEPT ![t] =
                     [author |-> u, pc |-> "plan", left |-> 0,
                      seen |-> user_state_dict[SessionOf(u)].memory,
                      failed |-> FALSE,
                      prompt |-> str_memory(user_state_dict[SessionOf(u)].memory),
                      raw |-> << >>, polls |-> 0]]
          ELSE IF Constructs(init)
          THEN /\ user_state_dict' = [user_state_dict EXCEPT ![u].present = TRUE]
               /\ sessions' = [sessions EXCEPT ![u] = NewSession(u)]
               /\ created' = [created EXCEPT ![u] = @ + 1]
               /\ tasks' = [tasks EXCEPT ![t] =
                     [author |-> u, pc |-> "plan", left |-> 0,
                      seen |-> user_state_dict[SessionOf(u)].memory,
                      failed |-> FALSE,
                      prompt |-> str_memory(user_state_dict[SessionOf(u)].memory),
                      raw |-> << >>, polls |-> 0]]
          ELSE /\ UNCHANGED <<user_state_dict, sessions, created>>
               /\ tasks' = [tasks EXCEPT ![t] =
                     [author |-> u, pc |-> "done", left |-> 0, seen |-> << >>,
                      failed |-> TRUE, prompt |-> << >>, raw |-> << >>,
                      polls |-> 0]]
    /\ UNCHANGED <<runs, pc, author, tool_calls, i, j, step_summaries,
                   step_memory, tool_success, undo_failures, fwdLog, undoLog,
                   execLog, sumCalls, replies, err, escaped, mem0, plan,
                   thread, call, attempt, polled, waited>>
    /\ UNCHANGED pureVars

\* the Plan Compiler answers: no plan, or a plan with n Step Executor calls
\* to come
PlanReturns(t) ==
    /\ tasks[t].pc = "plan"
    /\ EventLoopFree
    /\ \E n \in 0..MaxSteps :
          tasks' = [tasks EXCEPT ![t].left = n,
                                 ![t].pc = IF n = 0 THEN "done" ELSE "step"]
    /\ UNCHANGED <<user_state_dict, sessions, created, runs, pc, author,
                   tool_calls, i, j, step_summaries, step_memory, tool_success,
                   undo_failures, fwdLog, undoLog, execLog, sumCalls, replies,
                   err, escaped, mem0, plan, thread, call, attempt, polled,
                   waited>>
    /\ UNCHANGED pureVars

\* one Step Executor call of the task: the model answers with a
\* run_command tool call and the tool function is called (line 223)
StepExec(t) ==
    /\ tasks[t].pc = "step"
    /\ EventLoopFree
    /\ \E raw \in TaskCommands :
          tasks' = [tasks EXCEPT ![t].pc = "tool", ![t].raw = raw,
                                 ![t].polls = 0]
    /\ UNCHANGED <<user_state_dict, sessions, created, runs, pc, author,
                   tool_calls, i, j, step_summaries, step_memory, tool_success,
                   undo_failures, fwdLog, undoLog, execLog, sumCalls, replies,
                   err, escaped, mem0, plan, thread, call, attempt, polled,
                   waited>>
    /\ UNCHANGED pureVars

\* one iteration of the loop of _wait_for_command that finds the job still
\* running and sleeps
ToolPoll(t) ==
    /\ tasks[t].pc = "tool"
    /\ tasks[t].polls < MaxPolls
    /\ tasks' = [tasks EXCEPT ![t].polls = @ + 1]
    /\ UNCHANGED <<user_state_dict, sessions, created, runs, pc, author,
                   tool_calls, i, j, step_summaries, step_memory, tool_success,
                   undo_failures, fwdLog, undoLog, execLog, sumCalls, replies,
                   err, escaped, mem0, plan, thread, call, attempt, polled,
                   waited>>
    /\ UNCHANGED pureVars

\* the job is over and execute_command returns to the Step Executor, on
\* the session of the task's author
ToolReturns(t) ==
    /\ tasks[t].pc = "tool"
    /\ LET who == SessionOf(tasks[t].author)
           statuses == [n \in 1..tasks[t].polls |-> "InProgress"]
                           \o <<"Success">>
           r == execute_command(sessions[who], tasks[t].raw,
                    <<Outcome(FALSE, statuses, "exists")>>)
       IN  sessions' = [sessions EXCEPT ![who] = r.session]
    /\ tasks' = [tasks EXCEPT ![t].left = @ - 1,
                              ![t].raw = << >>, ![t].polls = 0,
                              ![t].pc = IF tasks[t].left = 1 THEN "append"
                                        ELSE "step"]
    /\ UNCHANGED <<user_state_dict, created, runs, pc, author, tool_calls, i,
                   j, step_summaries, step_memory, tool_success, undo_failures,
                   fwdLog, undoLog, execLog, sumCalls, replies, err, escaped,
                   mem0, plan, thread, call, attempt, polled, waited>>
    /\ UNCHANGED pureVars

\* run(), line 438: the run's entry goes to the memory of its author
AppendMemory(t) ==
    /\ tasks[t].pc = "append"
    /\ EventLoopFree
    /\ user_state_dict' = [user_state_dict EXCEPT
          ![SessionOf(tasks[t].author)].memory = MemoryAppend(@, <<t>>)]
    /\ tasks' = [tasks EXCEPT ![t].pc = "done"]
    /\ UNCHANGED <<sessions, created, runs, pc, author, tool_calls, i, j,
                   step_summaries, step_memory, tool_success, undo_failures,
                   fwdLog, undoLog, execLog, sumCalls, replies, err, escaped,
                   mem0, plan, thread, call, attempt, polled, waited>>
    /\ UNCHANGED pureVars

NextTasks ==
    \/ \E t \in Tasks, u \in Users : Start(t, u)
    \/ \E t \in Tasks : PlanReturns(t)
    \/ \E t \in Tasks : StepExec(t)
    \/ \E t \in Tasks : ToolPoll(t)
    \/ \E t \in Tasks : ToolReturns(t)
    \/ \E t \in Tasks : AppendMemory(t)

SpecTasks == Init /\ [][NextTasks]_vars

\* ------------------------------------------------ status polling of one job
\* one iteration of the loop of _wait_for_command
Poll ==
    /\ waited = "polling"
    /\ \E status \in Statuses :
          LET st == PollStep([attempt |-> attempt, polled |-> polled,
                              waited |-> waited], status)
          IN  /\ attempt' = st.attempt
              /\ polled' = st.polled
              /\ waited' = st.waited
    /\ UNCHANGED <<user_state_dict, runs, pc, author, tool_calls, i, j,
                   step_summaries, step_memory, tool_success, undo_failures,
                   fwdLog, undoLog, execLog, sumCalls, replies, err, escaped,
                   mem0, plan, thread, sessions, created, call, tasks>>
    /\ UNCHANGED pureVars

NextPoll == Poll

SpecPoll == Init /\ [][NextPoll]_vars

\* ------------------------------------------------------- reading the logs
Memory(u) == user_state_dict[u].memory

Judged(src, k, value) ==
    \E n \in 1..Len(execLog) :
        execLog[n] = [src |-> src, idx |-> k, ev |-> "judge", val |-> value]

FwdFailed(k) == Judged("fwd", k, "str:False")

FwdOk(k) == Judged("fwd", k, "str:True")

UndoFailed(k) == Judged("undo", k, "str:False")

SomeFwdFailed == \E k \in 1..Len(tool_calls) : FwdFailed(k)

Executed(src, k) ==
    \E n \in 1..Len(execLog) : execLog[n].src = src /\ execLog[n].idx = k

Replied(kind) == \E n \in 1..Len(replies) : replies[n].kind = kind

\* the forward loop has been left without an exception
LoopLeft ==
    \/ pc \in {"append", "summarize"}
    \/ pc = "done" /\ (err = "summarize" \/ (err = "none" /\ ~Replied("notask")))

\* line 438 has run
Appended == LoopLeft /\ pc # "append"

\* the narration and the record of forward step n, as the Step Executor
\* returned them
FwdRecord(n) == create_tool_str(tool_calls[n])

FwdNarration(n) ==
    Narrate(IF FwdFailed(n) THEN "SUMMARIZE_TOOL_FAILURE_PROMPT"
            ELSE "SUMMARIZE_TOOL_USE_PROMPT", FwdRecord(n))

FwdEntry ==
    [n \in 1..Len(fwdLog) |->
        [mark |-> IF FwdFailed(n) THEN "failed" ELSE "ok", step |-> n,
         narr |-> FwdNarration(n)]]

\* ------------------------------------------------------------------ claims

\* C1: when step k is the first step judged failed, the forward steps
\* executed are 1..k, once each and in plan order, and no step after k is
\* ever executed, before or after compensation.
C1_ForwardOnceInOrder ==
    /\ Len(fwdLog) <= Len(tool_calls)
    /\ \A n \in 1..Len(fwdLog) : fwdLog[n] = n
    /\ \A k \in 1..Len(tool_calls) : FwdFailed(k) => Len(fwdLog) = k

C1_Witness ==
    /\ pc = "done" /\ err = "none"
    /\ Len(tool_calls) = 2 /\ FwdFailed(1)
    /\ fwdLog = <<1>> /\ Len(undoLog) = 1

\* C2: the inverse-synthesis calls are made for steps k, k-1, ..., 1 in that
\* order, starting with the failed step k and skipping none; once
\* compensation is over there have been exactly k of them, whatever the
\* inverse steps were judged.
C2_CompensationReverseOrder ==
    /\ \A n \in 1..Len(undoLog) :
          /\ FwdFailed(Len(fwdLog))
          /\ undoLog[n].idx = Len(fwdLog) - n + 1
    /\ (LoopLeft /\ SomeFwdFailed) => Len(undoLog) = Len(fwdLog)

C2_Witness ==
    /\ pc = "done" /\ err = "none"
    /\ FwdFailed(2)
    /\ Len(undoLog) = 2 /\ undoLog[1].idx = 2 /\ undoLog[2].idx = 1
    /\ UndoFailed(2) /\ Executed("undo", 1) /\ ~UndoFailed(1)

\* C3: an inverse step judged failed sets undo_failures and does not stop
\* compensation, which goes on with the next earlier index; undo_failures is
\* true exactly when some executed inverse step was judged failed.
C3_UndoFailureContinues ==
    /\ undo_failures <=> \E k \in 1..Len(tool_calls) : UndoFailed(k)
    /\ \A n \in 1..Len(undoLog) :
          LET k == undoLog[n].idx
          IN  (UndoFailed(k) /\ k > 1) =>
                 IF n < Len(undoLog) THEN undoLog[n + 1].idx = k - 1
                 ELSE pc = "undo" /\ j + 1 = k - 1

C3_Witness ==
    /\ pc = "done" /\ err = "none"
    /\ UndoFailed(2) /\ Len(undoLog) = 2 /\ undoLog[2].text = "{}"
    /\ undo_failures /\ Replied("rollback_errors")

C5_AllSuccessCompletes ==
    ~SomeFwdFailed =>
        /\ undoLog = << >>
        /\ ~undo_failures
        /\ \A k \in 1..Len(tool_calls) : ~Executed("undo", k)
        /\ ~Replied("failure") /\ ~Replied("rollback_clean")
        /\ ~Replied("rollback_errors")
        /\ (pc = "done" /\ err = "none" /\ fwdLog # << >>) =>
              /\ Len(fwdLog) = Len(tool_calls)
              /\ \A n \in 1..Len(fwdLog) : fwdLog[n] = n /\ FwdOk(n)
              /\ Len(replies) = 2 /\ replies[1].kind = "completed"

C5_Witness ==
    /\ pc = "done" /\ err = "none"
    /\ fwdLog = <<1, 2>> /\ FwdOk(1) /\ FwdOk(2)
    /\ replies[1].kind = "completed" /\ undoLog = << >>

\* C6: when all N >= 1 steps were judged successful, the author's memory is
\* the memory at the start of the run plus one entry, the N success
\* narrations in step order; the one summarization call gets the records and
\* narrations of the N steps in step order and its response is the reply.
C6_MemoryOnSuccess ==
    LET N == Len(tool_calls)
        entry == [n \in 1..N |->
                     [mark |-> "ok", step |-> n,
                      narr |-> Narrate("SUMMARIZE_TOOL_USE_PROMPT", FwdRecord(n))]]
        records == [m \in 1..(2 * N) |->
                       IF m % 2 = 1 THEN FwdRecord((m + 1) \div 2)
                       ELSE Narrate("SUMMARIZE_TOOL_USE_PROMPT", FwdRecord(m \div 2))]
    IN  (N >= 1 /\ \A k \in 1..N : FwdOk(k)) =>
           /\ pc = "append" => Memory(author) = mem0[author]
           /\ pc # "append" => Memory(author) = Append(mem0[author], entry)
           /\ (pc = "done" /\ err = "none") =>
                 /\ sumCalls = << [prompt |-> "FINAL_SUMMARY_PROMPT",
                                   messages |-> records] >>
                 /\ replies[1] = [kind |-> "completed",
                                  body |-> [prompt |-> "FINAL_SUMMARY_PROMPT",
                                            steps |-> records]]

C6_Witness ==
    /\ pc = "done" /\ err = "none"
    /\ Len(tool_calls) = 2 /\ FwdOk(1) /\ FwdOk(2)
    /\ Len(mem0[author]) = 1 /\ Len(Memory(author)) = 2
    /\ Len(Memory(author)[2]) = 2 /\ Len(sumCalls) = 1

C8_Original ==
    \A n \in 1..Len(execLog) :
        execLog[n].ev = "judge" =>
            IF execLog[n].val = "bool:true"
            THEN n + 2 <= Len(execLog) /\ execLog[n + 2].ev = "return"
                 /\ execLog[n + 2].val = "true"
            ELSE IF execLog[n].val = "bool:false"
            THEN n + 2 <= Len(execLog) /\ execLog[n + 2].ev = "return"
                 /\ execLog[n + 2].val = "false"
            ELSE n = Len(execLog) /\ err = "judgment"

\* C8 amended: the JSON string "True" gives succeeded = true after the
\* success narration, the JSON string "False" gives succeeded = false after
\* the failure narration, and any other value of the field (the JSON
\* booleans true and false included, or no field) raises.
C8_JudgmentTokens ==
    \A n \in 1..Len(execLog) :
        execLog[n].ev = "judge" =>
            IF execLog[n].val = "str:True"
            THEN /\ n + 2 <= Len(execLog)
                 /\ execLog[n + 1].ev = "narrate_success"
                 /\ execLog[n + 2].ev = "return" /\ execLog[n + 2].val = "true"
            ELSE IF execLog[n].val = "str:False"
            THEN /\ n + 2 <= Len(execLog)
                 /\ execLog[n + 1].ev = "narrate_failure"
                 /\ execLog[n + 2].ev = "return" /\ execLog[n + 2].val = "false"
            ELSE n = Len(execLog) /\ pc = "done" /\ err = "judgment"

C8_Witness ==
    /\ pc = "done" /\ err = "judgment"
    /\ FwdOk(1)
    /\ execLog[Len(execLog)] =
          [src |-> "fwd", idx |-> 2, ev |-> "judge", val |-> "bool:true"]

\* C9: a forward judgment outside the two allowed values ends the run at
\* once: the judgment is not repeated, no narration, no later forward step,
\* no compensation and no summarization follow, and the only reply is the
\* generic failure reply.
C9_JudgmentViolationAborts ==
    \A n \in 1..Len(execLog) :
        (/\ execLog[n].src = "fwd" /\ execLog[n].ev = "judge"
         /\ execLog[n].val \notin {"str:True", "str:False"}) =>
            /\ n = Len(execLog)
            /\ pc = "done" /\ err = "judgment" /\ ~escaped
            /\ Len(fwdLog) = execLog[n].idx
            /\ \A m \in 1..Len(fwdLog) : fwdLog[m] = m
            /\ undoLog = << >> /\ sumCalls = << >>
            /\ replies = << Reply("error") >>

C9_Witness ==
    /\ pc = "done" /\ err = "judgment"
    /\ Len(tool_calls) = 2 /\ fwdLog = <<1>>
    /\ execLog[Len(execLog)] =
          [src |-> "fwd", idx |-> 1, ev |-> "judge", val |-> "str:maybe"]
    /\ replies = << Reply("error") >>

\* C10: no exception leaves run(): a run ended by an exception, wherever it
\* was raised, has the generic failure acknowledgment as its last reply.
C10_NoExceptionEscapes ==
    /\ ~escaped
    /\ err # "none" =>
          /\ pc = "done"
          /\ replies # << >> /\ replies[Len(replies)] = Reply("error")
    /\ (pc = "done" /\ Replied("error")) => err # "none"

C10_Witness ==
    /\ pc = "done" /\ err = "dispatch"
    /\ undoLog # << >>
    /\ replies = << Reply("error") >>

\* C11: when the Plan Compiler's response is the empty string or the literal
\* "[]", the only reply of the run is the fixed "couldn't find any
\* AWS-related tasks" message, no thread is created, no tool and no Step
\* Executor call is made (forward or inverse), no summary is asked for, no
\* memory is written, and the run has ended.
C11_NoPlanShortCircuit ==
    plan \in {"", "[]"} =>
        /\ pc = "done" /\ err = "none"
        /\ replies = << Reply("notask") >>
        /\ ~thread
        /\ tool_calls = << >>
        /\ fwdLog = << >> /\ undoLog = << >> /\ execLog = << >>
        /\ sumCalls = << >>
        /\ \A u \in Users : Memory(u) = mem0[u]

C11_Witness ==
    /\ plan = "[]" /\ pc = "done" /\ runs = 2
    /\ replies = << Reply("notask") >>
    /\ Memory(author) # << >>

\* ------------------------------------------------ reading an execute call
Entries == call.log

\* the sub-command's probe found no directory of that name on the instance
NoSuchDirectory(e) == e.route = "cd" /\ ~e.outcome.raises /\ e.outcome.remote = "missing"

\* the probe of the sub-command ran to its end and printed the path of an
\* existing directory
ProbeSucceeded(e) ==
    /\ e.route = "cd" /\ ~e.outcome.raises
    /\ JobOver(e.outcome) /\ e.outcome.remote = "exists"

\* C12: a cd sub-command to a nonexistent path leaves current_directory as
\* it was and gives "Directory not found" as its output, and a sub-command
\* that follows it in the same call is executed against that unchanged
\* directory.
C12_Original ==
    \A n \in 1..Len(Entries) :
        NoSuchDirectory(Entries[n]) =>
            /\ Entries[n].after.current_directory = Entries[n].before.current_directory
            /\ Entries[n].result = "Directory not found"
            /\ n < Len(SubCommands(call.raw)) =>
                  /\ Len(Entries) > n
                  /\ Entries[n + 1].job.cwd = Entries[n].before.current_directory

\* C13: current_directory changes only by a cd sub-command whose probe ran
\* to its end and reported an existing directory, and then becomes the path
\* the probe reported; every other sub-command (sentinel reply, probe that
\* printed no path, polling that gave up, any non-cd sub-command) leaves it
\* as it was.
C13_Original ==
    \A n \in 1..Len(Entries) :
        IF ProbeSucceeded(Entries[n])
        THEN Entries[n].after.current_directory = Text(Entries[n].job.command)
        ELSE Entries[n].after.current_directory = Entries[n].before.current_directory

\* the pieces of the raw command between the "&&", the blank ones left out
NonBlankPieces(raw) ==
    SelectSeq(SplitOn(raw, "&&"), LAMBDA c : \E n \in 1..Len(c) : c[n] # " ")

AssignmentForm(cmd) == Len(cmd) >= 2 /\ cmd[1] \notin {" ", "="} /\ cmd[2] = "="

\* C15: a cd sub-command goes to the existence probe; only a sub-command of
\* the form NAME=value that does not start with export, echo or printf
\* changes environment_vars; every other sub-command, one with an "=" in an
\* argument included, is sent as a job in the user's environment and leaves
\* environment_vars as it was.
C15_Original ==
    \A n \in 1..Len(Entries) :
        LET e == Entries[n]
        IN  IF StartsWith(e.cmd, <<"cd", " ">>) THEN e.job.kind = "probe"
            ELSE IF AssignmentForm(e.cmd) THEN e.job.kind # "conda"
            ELSE /\ e.job.kind = "conda"
                 /\ e.after.environment_vars = e.before.environment_vars

\* the value the assignments before sub-command n last gave to `name`
RECURSIVE LatestValue(_, _, _)
LatestValue(name, n, start) ==
    IF n = 0 THEN Get(start, name)
    ELSE IF Entries[n].route = "env" /\ AssignedName(Entries[n].cmd) = name
    THEN AssignedValue(Entries[n].cmd)
    ELSE LatestValue(name, n - 1, start)

\* C16: the job of every normal sub-command names the session's
\* current_directory of that moment and every assignment made so far, each
\* name with the value last assigned to it; no sub-command takes a name out
\* of environment_vars.
C16_NormalCommandCarriesState ==
    \A n \in 1..Len(Entries) :
        LET e == Entries[n]
            start == Entries[1].before.environment_vars
            names == Keys(start) \cup
                     {AssignedName(Entries[m].cmd) :
                         m \in {k \in 1..(n - 1) : Entries[k].route = "env"}}
        IN  /\ Keys(e.before.environment_vars) \subseteq Keys(e.after.environment_vars)
            /\ e.route = "normal" =>
                  /\ e.job.kind = "conda"
                  /\ e.job.cwd = e.before.current_directory
                  /\ Keys(e.job.env) = names
                  /\ \A name \in names :
                        Get(e.job.env, name) = LatestValue(name, n - 1, start)

C16_Witness ==
    /\ Len(Entries) = 2
    /\ Entries[1].cmd = <<"X", "=", "2">>
    /\ Entries[1].before.environment_vars = << <<"X", "1">> >>
    /\ Entries[1].before.current_directory = "/srv"
    /\ Entries[2].cmd = <<"ls">>
    /\ Entries[2].job = Job("conda", "/srv", << <<"X", "2">> >>, <<"ls">>)

\* the sleep the contract gives for a non-terminal status at attempt a
\* (0-based): 3, 6, 12, then 15
ContractSleep(a) == IF a = 0 THEN 3 ELSE IF a = 1 THEN 6 ELSE IF a = 2 THEN 12 ELSE 15

SawTerminal == \E n \in 1..Len(polled) : polled[n].status \in TerminalStatuses

\* C17: polling makes at most 10 status queries and is over after the 10th;
\* after a non-terminal status at attempt a it sleeps min(3 * 2^a, 15); it
\* reports completion exactly when a query saw Success, Failed, Cancelled
\* or TimedOut (and stops at that query), non-completion exactly when all
\* 10 queries saw none.
C17_PollingBoundedBackoff ==
    /\ attempt = Len(polled) /\ attempt <= 10
    /\ attempt = 10 => waited # "polling"
    /\ \A n \in 1..Len(polled) :
          /\ polled[n].status = "InProgress" => polled[n].slept = ContractSleep(n - 1)
          /\ polled[n].status \in TerminalStatuses => n = Len(polled)
    /\ waited = "true" <=> SawTerminal
    /\ waited = "false" <=> (attempt = 10 /\ ~SawTerminal)

C17_Witness ==
    /\ waited = "false"
    /\ \A n \in 1..10 : polled[n].status = "InProgress"
    /\ polled[3].slept = 12 /\ polled[4].slept = 15 /\ polled[10].slept = 15

\* what run_command returns when polling of its job gave up
ExhaustedResult ==
    execute_normal_command(NewSession("u1"), <<"ls">>,
        Outcome(FALSE, [n \in 1..max_retries |-> "InProgress"], "out")).result

\* forward step k ran a job whose polling gave up
PollingExhausted(k) ==
    \E n \in 1..Len(execLog) :
        execLog[n] = [src |-> "fwd", idx |-> k, ev |-> "tool", val |-> ExhaustedResult]

\* the Step Executor returned for forward step k
Returned(k) ==
    \E n \in 1..Len(execLog) :
        execLog[n].src = "fwd" /\ execLog[n].idx = k /\ execLog[n].ev = "return"

\* C18: a forward step whose remote job polling was exhausted is judged
\* failed, and compensation starts at it.
C18_Original ==
    \A k \in 1..Len(fwdLog) :
        (PollingExhausted(k) /\ Returned(k)) =>
            /\ FwdFailed(k)
            /\ undoLog # << >> \/ pc = "undo"

InFlight(t) == tasks[t].pc \in {"plan", "step", "tool", "append"}

\* C19: whatever the order of the requests and the turns of their runs (two
\* runs of the same new user in flight together included), no user ever
\* has more than one session constructed and registered, a user is
\* registered exactly when a session was constructed for one of their
\* requests, every run past its first statements works on a registered
\* session, and a registered session is never constructed again nor
\* removed.
C19_OneSessionPerUser ==
    /\ [](\A u \in Users :
            /\ created[u] <= 1
            /\ user_state_dict[u].present <=> created[u] = 1
            /\ created[u] = 1 =>
                  \E t \in Tasks : tasks[t].pc # "idle" /\ tasks[t].author = u
            /\ created[u] = 0 => sessions[u] = NoSession)
    /\ [](\A t \in Tasks :
            (tasks[t].pc # "idle" /\ ~tasks[t].failed) =>
                user_state_dict[tasks[t].author].present)
    /\ [][\A u \in Users :
            user_state_dict[u].present =>
                user_state_dict'[u].present /\ created'[u] = created[u]]_vars

C19_Witness ==
    /\ tasks["t1"].author = "u1" /\ tasks["t2"].author = "u1"
    /\ InFlight("t1") /\ InFlight("t2")
    /\ tasks["t1"].pc = "plan" /\ tasks["t2"].pc = "step"
    /\ created["u1"] = 1 /\ created["u2"] = 0

\* the entries of a memory list were written by runs of user u
WrittenFor(memory, u) ==
    \A n \in 1..Len(memory) : tasks[memory[n][1]].author = u

\* C20: under any interleaving, a step of a run changes the session
\* (current_directory, environment_vars, command history), the registration
\* and the memory of no user but the run's author, and the memory a run
\* hands to the Plan Compiler holds entries of its author's runs only.
C20_SessionsIndependent ==
    /\ [](\A t \in Tasks : tasks[t].pc # "idle" => WrittenFor(tasks[t].seen, tasks[t].author))
    /\ [](\A u \in Users : WrittenFor(Memory(u), u))
    /\ [][\A t \in Tasks : tasks'[t] # tasks[t] =>
            \A u \in Users \ {tasks'[t].author} :
                /\ sessions'[u] = sessions[u]
                /\ user_state_dict'[u] = user_state_dict[u]
                /\ created'[u] = created[u]]_vars

C20_Witness ==
    /\ tasks["t1"].author = "u1" /\ tasks["t2"].author = "u2"
    /\ tasks["t1"].pc = "done" /\ tasks["t2"].pc = "step"
    /\ sessions["u1"].current_directory = "/srv"
    /\ sessions["u1"].environment_vars = << >>
    /\ sessions["u2"].current_directory = "/home/u2"
    /\ sessions["u2"].environment_vars = << <<"X", "1">> >>
    /\ Memory("u1") = << <<"t1">> >> /\ Memory("u2") = << >>

\* C21: a failing side effect of session initialization is not raised: a
\* run that has started has its author registered with a session and was
\* not ended by the construction of the session.
C21_Original ==
    pc # "idle" =>
        /\ user_state_dict[author].present
        /\ sessions[author] # NoSession
        /\ err # "session"

SomeUndoFailed == \E k \in 1..Len(tool_calls) : UndoFailed(k)

\* C22: a run that ended (without an exception) after a forward step was
\* judged failed has told the user exactly one of the two rollback
\* statements, as the last reply after the failure narration: the clean one
\* exactly when undo_failures is false, the at-least-one-error one exactly
\* when it is true; undo_failures is true exactly when some inverse step was
\* judged failed; no run ever gets both statements.
C22_RollbackStatement ==
    /\ ~(Replied("rollback_clean") /\ Replied("rollback_errors"))
    /\ (pc = "done" /\ err = "none" /\ SomeFwdFailed) =>
          /\ Len(replies) = 2 /\ replies[1].kind = "failure"
          /\ replies[2].kind \in {"rollback_clean", "rollback_errors"}
          /\ Replied("rollback_clean") <=> ~undo_failures
          /\ Replied("rollback_errors") <=> undo_failures
          /\ undo_failures <=> SomeUndoFailed

C22_Witness ==
    /\ pc = "done" /\ err = "none"
    /\ Len(tool_calls) = 2 /\ FwdOk(1) /\ FwdFailed(2)
    /\ UndoFailed(2) /\ Judged("undo", 1, "str:True")
    /\ undo_failures /\ Replied("rollback_errors")

\* ------------------------------------------------- posting of narrations
\* every variable of the runner, the channel and the tasks at rest
RunnerIdle ==
    /\ user_state_dict = [u \in Users |-> [present |-> FALSE, memory |-> << >>]]
    /\ runs = 0 /\ pc = "idle" /\ author = "u1" /\ tool_calls = << >>
    /\ i = 0 /\ j = 0 /\ step_summaries = << >> /\ step_memory = << >>
    /\ tool_success = TRUE /\ undo_failures = FALSE
    /\ fwdLog = << >> /\ undoLog = << >> /\ execLog = << >> /\ sumCalls = << >>
    /\ replies = << >> /\ err = "none" /\ escaped = FALSE
    /\ mem0 = [u \in Users |-> << >>] /\ plan = "none" /\ thread = FALSE
    /\ sessions = [u \in Users |-> NoSession]
    /\ created = [u \in Users |-> 0]
    /\ call = NoCall /\ attempt = 0 /\ polled = << >> /\ waited = "polling"
    /\ tasks = [t \in Tasks |-> NoTask]

\* the `1900` of run(): the longest body sent in one message
Boundary == 1900

\* narrations of up to MaxChunks full messages, and one character more
MaxChunks == 3

\* a narration of n characters, each told apart by its position
NarrationOf(n) == [k \in 1..n |-> k]

NarrationLengths ==
    {n \in 0..(MaxChunks * Boundary + 1) :
        \E k \in 0..MaxChunks : n \in {k * Boundary - 1, k * Boundary,
                                       k * Boundary + 1}}

\* where run() posts a narration: the narration of a successful step, of a
\* failed step and of an inverse step (thread), and the final narration of
\* a successful and of a failed run (replies)
Sites == {"step_ok", "step_failed", "undo_ok", "final_ok", "final_failed"}

\* text[a : a + Boundary]
Slice(text, a) == SubSeq(text, a + 1, Min(a + Boundary, Len(text)))

\* range(0, len(text), Boundary)
Offsets(text) ==
    [k \in 1..((Len(text) + Boundary - 1) \div Boundary) |-> (k - 1) * Boundary]

Message(kind, header, body) == [kind |-> kind, header |-> header, body |-> body]

\* `if len(text) > 1900: for j in range(0, len(text), 1900): ... else: ...`:
\* the header goes on the first message only; `fallback` is the text sent
\* in place of an empty body (<< >> where the code has none)
Chunked(header, text, fallback) ==
    LET body(b) == IF b = << >> THEN fallback ELSE b
    IN  IF Len(text) > Boundary
        THEN [k \in 1..Len(Offsets(text)) |->
                 Message("narration", IF Offsets(text)[k] = 0 THEN header ELSE "",
                         body(Slice(text, Offsets(text)[k])))]
        ELSE << Message("narration", header, body(text)) >>

\* one send of the whole text
Whole(header, text) == << Message("narration", header, text) >>

Note(header) == Message("note", header, << >>)

\* the messages run() sends for the narration `text` at `site`
Post(site, text, undoFailed) ==
    IF site = "step_ok" THEN Chunked("Step", text, << >>)
    ELSE IF site = "step_failed" THEN Whole("Step failed", text)
    ELSE IF site = "undo_ok" THEN Whole("Reversing Step", text)
    ELSE IF site = "final_ok"
    THEN Chunked("Task completed!", text, <<"All steps completed successfully.">>)
            \o << Note("Want more details?") >>
    ELSE Chunked("Task failure!", text, <<"All steps did NOT complete successfully.">>)
            \o (IF Len(text) > Boundary THEN << Note("Want more details?") >>
                ELSE << >>)
            \o << Note(IF undoFailed THEN "rollback_errors" ELSE "rollback_clean") >>

InitChunk ==
    /\ RunnerIdle
    /\ \E site \in Sites, n \in NarrationLengths, undoFailed \in BOOLEAN :
          posted = [site |-> site, tool_response |-> NarrationOf(n),
                    undo_failures |-> undoFailed, messages |-> << >>,
                    sent |-> FALSE]
    /\ setup = NoSetup
    /\ executed = NoStepCall
    /\ environment = NoEnvironment

\* the narration is posted
Send ==
    /\ ~posted.sent
    /\ posted' = [posted EXCEPT
          !.messages = Post(posted.site, posted.tool_response,
                            posted.undo_failures),
          !.sent = TRUE]
    /\ UNCHANGED <<user_state_dict, runs, pc, author, tool_calls, i, j,
                   step_summaries, step_memory, tool_success, undo_failures,
                   fwdLog, undoLog, execLog, sumCalls, replies, err, escaped,
                   mem0, plan, thread, sessions, created, call, attempt,
                   polled, waited, tasks, setup, executed, environment>>

NextChunk == Send

SpecChunk == InitChunk /\ [][NextChunk]_vars

\* the messages that carry the narration, in posting order
NarrationMessages ==
    SelectSeq(posted.messages, LAMBDA m : m.kind = "narration")

RECURSIVE Concat(_)
Concat(msgs) == IF msgs = << >> THEN << >> ELSE Head(msgs).body \o Concat(Tail(msgs))

CeilDiv(a, b) == (a + b - 1) \div b

\* C23 (as stated): a narration longer than the boundary B = 1900 is posted
\* as exactly ceil(L/B) chunks whose bodies, concatenated in posting order,
\* give back the narration; a narration of at most B characters is posted
\* as a single message.
C23_Original ==
    posted.sent =>
        LET L == Len(posted.tool_response)
        IN  IF L > Boundary
            THEN /\ Len(NarrationMessages) = CeilDiv(L, Boundary)
                 /\ \A k \in 1..Len(NarrationMessages) :
                       Len(NarrationMessages[k].body) <= Boundary
                 /\ Concat(NarrationMessages) = posted.tool_response
            ELSE Len(NarrationMessages) = 1

\* --------------------------------------------------- setup_github_project
\* setup steps of at most MaxSetup commands
MaxSetup == 3

repo_directory == "/home/ec2-user/repo"

\* readme_check_command: the cd into the repository, then the script that
\* prints the README or the sentence "No README file found"
readme_check_command ==
    <<"cd", " ", repo_directory, " ", "&&", " ", "if [ -f README.md ]; ... fi">>

\* dep_check_command: the cd, then one test per dependency file and tool,
\* each a sub-command of its own; of the eight tests the first and the last
\* are kept
dep_check_command ==
    <<"cd", " ", repo_directory, " ", "&&", " ", "if [ -f requirements.txt ]; ... fi",
      " ", "&&", " ", "if which npm > /dev/null; ... fi">>

\* the commands the analysis LLM may list: a normal command, a directory
\* change and a blank line
SetupStepPool == {<<"pip", " ", "install", " ", "foo">>, <<"cd", " ", "/srv">>, <<" ">>}

\* the content of the analysis LLM's response: not JSON, an object without
\* "setup_steps", or an object with a list of steps
AnalysisResponses ==
    {[parses |-> FALSE, has_steps |-> FALSE, setup_steps |-> << >>],
     [parses |-> TRUE, has_steps |-> FALSE, setup_steps |-> << >>]}
    \cup {[parses |-> TRUE, has_steps |-> TRUE, setup_steps |-> s] :
              s \in SeqsUpTo(SetupStepPool, MaxSetup)}

\* what the instance does during the analysis: the outcome of the probe
\* of the repository directory, and what the README script prints
ProbeOutcomes ==
    {Outcome(FALSE, <<"Success">>, "exists"),
     Outcome(FALSE, <<"Success">>, "missing"), Thrown}

ReadmeTexts == {"No README file found", "# Demo"}

\* a job that ended with status Failed
FailedJob == Outcome(FALSE, <<"Failed">>, "")

\* `"No README file found" in readme_result`
MentionsNoReadme(returned) ==
    \E n \in 1..Len(returned) : returned[n] = "No README file found"

Analysis(status, error, setup_steps, sess) ==
    [status |-> status, error |-> error, setup_steps |-> setup_steps,
     session |-> sess]

printed(text) == Outcome(FALSE, <<"Success">>, text)

\* analyze_readme_for_setup, lines 35-50, `readme` being what
\* execute_command(readme_check_command) did; "none" is no return yet
read_readme(readme) ==
    IF readme.call.raised
    THEN Analysis("Failed", "exception", << >>, readme.session)
    ELSE IF MentionsNoReadme(readme.call.returned)
    THEN Analysis("Warning", "No README file found in the repository",
                  << >>, readme.session)
    ELSE Analysis("none", "", << >>, readme.session)

\* analyze_readme_for_setup, lines 52-120, `deps` being what
\* execute_command(dep_check_command) did and `llm` the LLM's response
analyze_readme_for_setup(deps, llm) ==
    IF deps.call.raised
    THEN Analysis("Failed", "exception", << >>, deps.session)
    ELSE IF ~llm.parses
    THEN Analysis("Failed", "README analysis failed", << >>, deps.session)
    ELSE Analysis("Success", "", llm.setup_steps, deps.session)

\* the outcomes of the one job of a setup step
SetupOutcomes(step) ==
    OutcomesFor(Strip(step))
        \cup (IF Route(Strip(step)) = "normal" THEN {FailedJob} ELSE {})

\* what a step's failure looks like from inside the loop: the job did not
\* end with Success, the directory was not found, or the channel turned a
\* boto3 exception into text
StepFailed(attempt_) ==
    \/ attempt_.outcome.raises
    \/ attempt_.outcome.statuses # <<"Success">>
    \/ attempt_.outcome.remote \in {"missing", "denied"}

\* the dictionary appended to step_results
StepRecord(current_step, step_cmd, step_result) ==
    [step |-> current_step, command |-> step_cmd, status |-> "Success",
     output |-> step_result, error |-> ""]

\* mutant: the loop stops at a step whose job did not end with Success
SetupGoesOn_StopOnError(o) == o.statuses = <<"Success">>

\* `for step in setup_steps:` looks at no step_result: it goes on
SetupGoesOn(o) == TRUE

InitSetup ==
    /\ RunnerIdle
    /\ posted = NoPost
    /\ executed = NoStepCall
    /\ environment = NoEnvironment
    /\ setup = [pc |-> "analyze", session |-> NewSession("u1"),
                analysis |-> "none", setup_steps |-> << >>, n |-> 1,
                step_results |-> << >>, attempted |-> << >>,
                status |-> "none", steps_executed |-> << >>]

SetupFrame ==
    UNCHANGED <<user_state_dict, runs, pc, author, tool_calls, i, j,
                step_summaries, step_memory, tool_success, undo_failures,
                fwdLog, undoLog, execLog, sumCalls, replies, err, escaped,
                mem0, plan, thread, sessions, created, call, attempt,
                polled, waited, tasks, posted, executed,
                environment>>

\* the status test of setup_github_project (lines 224-233) on what the
\* analysis returned
Analyzed(r) ==
    IF r.status = "none"
    THEN setup' = [setup EXCEPT !.pc = "deps", !.session = r.session]
    ELSE IF r.status # "Success"
    THEN setup' = [setup EXCEPT !.pc = "done", !.session = r.session,
                                !.analysis = r.status, !.status = "Failed",
                                !.steps_executed = << >>]
    ELSE setup' = [setup EXCEPT !.pc = "loop", !.session = r.session,
                                !.analysis = r.status,
                                !.setup_steps = r.setup_steps]

\* setup_github_project, line 222: the analysis reads the README
SetupReadme ==
    /\ setup.pc = "analyze"
    /\ \E probe \in ProbeOutcomes, text \in ReadmeTexts :
          \E readme \in {execute_command(setup.session, readme_check_command,
                                         <<probe, printed(text)>>)} :
             \E r \in {read_readme(readme)} : Analyzed(r)
    /\ SetupFrame

\* the analysis goes on to the dependency check and the LLM, and returns
SetupAnalyze ==
    /\ setup.pc = "deps"
    /\ \E probe \in ProbeOutcomes, llm \in AnalysisResponses :
          \E deps \in {execute_command(setup.session, dep_check_command,
                            <<probe, printed("found"), printed("found")>>)} :
             \E r \in {analyze_readme_for_setup(deps, llm)} : Analyzed(r)
    /\ SetupFrame

\* lines 237-250: one iteration of `for step in setup_steps:`
SetupStep ==
    /\ setup.pc = "loop"
    /\ setup.n <= Len(setup.setup_steps)
    /\ \E step \in {setup.setup_steps[setup.n]} :
          IF Strip(step) = << >>
          THEN setup' = [setup EXCEPT !.n = @ + 1]
          ELSE \E o \in SetupOutcomes(step) :
               \E r \in {execute_command(setup.session, step, <<o>>)} :
               \E tried \in {Append(setup.attempted,
                                    [command |-> step, outcome |-> o,
                                     raised |-> r.call.raised])} :
               \E records \in {Append(setup.step_results,
                                   StepRecord(Len(setup.step_results), step,
                                              r.call.returned))} :
                  IF r.call.raised
                  THEN setup' = [setup EXCEPT
                          !.pc = "done", !.session = r.session,
                          !.attempted = tried, !.status = "Failed",
                          !.steps_executed = setup.step_results]
                  ELSE IF SetupGoesOn(o)
                  THEN setup' = [setup EXCEPT
                          !.n = @ + 1, !.session = r.session,
                          !.attempted = tried, !.step_results = records]
                  ELSE setup' = [setup EXCEPT
                          !.pc = "done", !.session = r.session,
                          !.attempted = tried, !.step_results = records,
                          !.status = "Failed", !.steps_executed = records]
    /\ SetupFrame

\* lines 252-260: the loop is over
SetupReturn ==
    /\ setup.pc = "loop"
    /\ setup.n > Len(setup.setup_steps)
    /\ setup' = [setup EXCEPT !.pc = "done", !.status = "Success",
                              !.steps_executed = setup.step_results]
    /\ SetupFrame

NextSetup == SetupReadme \/ SetupAnalyze \/ SetupStep \/ SetupReturn

SpecSetup == InitSetup /\ [][NextSetup]_vars

\* C24 (as stated): when no README is found the analysis returns Warning
\* with an empty step list, and setup_project goes on with zero steps and
\* does not report the setup as Failed.
C24_Original ==
    (setup.pc = "done" /\ setup.analysis = "Warning") =>
        /\ setup.setup_steps = << >>
        /\ setup.steps_executed = << >>
        /\ setup.status # "Failed"

\* the steps of a list that are not blank, in list order
NonBlankSteps(steps) == SelectSeq(steps, LAMBDA s : Strip(s) # << >>)

Commands(entries) == [k \in 1..Len(entries) |-> entries[k].command]

MaxCalls == 2

\* a step whose "tool" field is not the first key of the dictionary
LateToolStep == << <<"command", "pwd">>, <<"tool", "run_command">>,
                   <<"description", "Printing the working directory.">> >>

\* a step that names another tool of the catalogue
SetupToolStep == << <<"tool", "setup_github_project">>, <<"repo_directory", "repo">>,
                    <<"description", "Setting up the project.">> >>

StepDescriptors == StepPool \cup {UndoStep, LateToolStep, SetupToolStep}

\* message.tool_calls of the LLM response: the function each call names
ToolCallLists == SeqsUpTo(FunctionNames, MaxCalls)

\* mutant: the last tool call of the response is taken
FirstToolCall_Last(calls) == calls[Len(calls)]

\* tool_response.choices[0].message.tool_calls[0]
FirstToolCall(calls) == calls[1]

\* get_data_with_tools(tool, ...) when the LLM answers with the tool calls
\* `calls`, the invoked function returns `result` and the judgment's
\* "successful" field is `judgment`
step_executor(tool, calls, result, judgment) ==
    IF ~HasKey(tool, "tool") THEN Raised("render", tool, << >>)
    ELSE IF calls = << >> THEN Raised("tool_call", tool, << >>)
    ELSE get_data_with_tools(tool, [fn |-> FirstToolCall(calls),
                                    result |-> result, judgment |-> judgment])

InitStep ==
    /\ RunnerIdle
    /\ posted = NoPost
    /\ setup = NoSetup
    /\ environment = NoEnvironment
    /\ \E tool \in StepDescriptors, calls \in ToolCallLists,
          result \in Results, judgment \in JudgmentValues :
          executed = [pc |-> "call", tool |-> tool, calls |-> calls,
                      result |-> result, judgment |-> judgment,
                      returned |-> Raised("none", << >>, << >>)]

\* the call runs from its first statement to its return or its exception
StepCall ==
    /\ executed.pc = "call"
    /\ executed' = [executed EXCEPT
          !.pc = "done",
          !.returned = step_executor(executed.tool, executed.calls,
                                     executed.result, executed.judgment)]
    /\ UNCHANGED <<user_state_dict, runs, pc, author, tool_calls, i, j,
                   step_summaries, step_memory, tool_success, undo_failures,
                   fwdLog, undoLog, execLog, sumCalls, replies, err, escaped,
                   mem0, plan, thread, sessions, created, call, attempt,
                   polled, waited, tasks, posted, setup, environment>>

NextStep == StepCall

SpecStep == InitStep /\ [][NextStep]_vars

\* the call has returned (no exception left it)
StepReturned == executed.pc = "done" /\ ~executed.returned.raised

NonToolFields(tool) == SelectSeq(tool, LAMBDA kv : kv[1] # "tool")

\* C26: the rendering of a step has the tool field first, then every
\* non-tool field the Plan Compiler emitted, once each and in insertion
\* order; after execution it carries the raw tool result as its last field,
\* and this rendering is the step record returned to the caller.
C26_RenderingKeepsFields ==
    /\ \A tool \in StepDescriptors :
          HasKey(tool, "tool") =>
             /\ Head(create_tool_str(tool)) = <<"Function", Get(tool, "tool")>>
             /\ Tail(create_tool_str(tool)) = NonToolFields(tool)
    /\ StepReturned =>
          LET record == executed.returned.record
          IN  /\ Head(record) = <<"Function", Get(executed.tool, "tool")>>
              /\ SubSeq(record, 2, Len(record) - 1) = NonToolFields(executed.tool)
              /\ record[Len(record)] = <<"request result", executed.result>>
              /\ Len(record) = Len(executed.tool) + 1

\* a step whose tool field is not its first key has been executed
C26_Witness ==
    /\ StepReturned
    /\ executed.tool = LateToolStep
    /\ Len(executed.returned.record) = 4

EventsOf(kind) ==
    SelectSeq(executed.returned.events, LAMBDA e : e[1] = kind)

\* C29: a Step Executor call that returns has invoked exactly one tool
\* function, the one named by the first tool call of the LLM response even
\* when the response carries several; it has made exactly one judgment call
\* and exactly one narration call: the success narration when judged
\* successful, the failure narration when judged failed, never both.
C29_OneToolOneJudgmentOneNarration ==
    StepReturned =>
        /\ Len(EventsOf("tool")) = 1
        /\ executed.returned.invoked = executed.calls[1]
        /\ Len(EventsOf("judge")) = 1
        /\ Len(EventsOf("narrate_success")) + Len(EventsOf("narrate_failure")) = 1
        /\ Len(EventsOf("narrate_success")) = 1
              <=> executed.judgment = "str:True"
        /\ Len(EventsOf("narrate_failure")) = 1
              <=> executed.judgment = "str:False"
        /\ executed.returned.succeeded <=> executed.judgment = "str:True"

\* the response carried two tool calls naming different functions
C29_Witness ==
    /\ StepReturned
    /\ Len(executed.calls) = 2
    /\ executed.calls[1] # executed.calls[2]
    /\ executed.judgment = "str:False"

\* C30 (as stated): the tool function invoked for a step is the one named
\* by the step's tool field, and the dispatch table has an entry for each
\* of the four tools of the catalogue.
C30_Original ==
    /\ ToolNames \subseteq tools_to_functions
    /\ Cardinality(ToolNames) = 4
    /\ (executed.pc = "done" /\ executed.returned.invoked # "none") =>
          executed.returned.invoked = Get(executed.tool, "tool")

\* C27 (as stated): the inverse-synthesis call for index j is supplied the
\* step j descriptor exactly as the Plan Compiler emitted it: executing a
\* forward step adds, removes or changes no field of the step held in the
\* plan.
C27_Original ==
    /\ \A n \in 1..Len(tool_calls) : tool_calls[n] \in StepPool
    /\ pc = "undo" => ~HasKey(tool_calls[j + 1], "request result")

\* C28 (as stated): a run that reaches Completed makes exactly one final
\* summarization LLM call, with the success prompt; a run that reaches
\* CompensatedFailure makes exactly one, with the failure prompt; the
\* narration returned to the user is the response of that call.
C28_Original ==
    /\ (pc = "done" /\ Replied("completed")) =>
          /\ Len(sumCalls) = 1
          /\ sumCalls[1].prompt = "FINAL_SUMMARY_PROMPT"
          /\ replies[1].body = LLMSummary(sumCalls[1].prompt, sumCalls[1].messages)
    /\ (pc = "done" /\ Replied("failure")) =>
          /\ Len(sumCalls) = 1
          /\ sumCalls[1].prompt = "FAILURE_FINAL_SUMMARY_PROMPT"
          /\ replies[1].body = LLMSummary(sumCalls[1].prompt, sumCalls[1].messages)

\* C34 (as stated): whenever the compiled plan has zero steps, in whatever
\* textual form the Plan Compiler returned it, the user gets the fixed
\* no-task message and never "Task completed", no summarization call is made
\* and nothing is appended to memory.
C34_Original ==
    plan \in {"", "[]", "[ ]"} =>
        /\ ~Replied("completed")
        /\ sumCalls = << >>
        /\ \A u \in Users : Memory(u) = mem0[u]
        /\ pc = "done" => replies = << Reply("notask") >>

\* C37: the outcome reported for a run depends on the forward steps only: a
\* run with a forward step judged failed is reported as a failure whatever
\* the inverse steps returned, never as "Task completed"; a run without a
\* failed forward step is never reported as a failure.
C37_OutcomeByForwardSteps ==
    /\ Replied("completed") => ~SomeFwdFailed
    /\ Replied("failure") => SomeFwdFailed
    /\ (pc = "done" /\ err = "none" /\ SomeFwdFailed) =>
          Replied("failure") /\ ~Replied("completed")
    /\ (pc = "done" /\ err = "none" /\ ~SomeFwdFailed /\ ~Replied("notask")) =>
          Replied("completed") /\ ~Replied("failure")

\* the second step failed and both inverse steps were judged successful
C37_Witness ==
    /\ pc = "done" /\ err = "none"
    /\ FwdOk(1) /\ FwdFailed(2)
    /\ Executed("undo", 1) /\ Executed("undo", 2) /\ ~SomeUndoFailed
    /\ Replied("failure") /\ Replied("rollback_clean")

\* the run was ended by an exception raised in the forward loop or in
\* compensation
AbortedInLoop == pc = "done" /\ err \notin {"none", "summarize"} /\ fwdLog # << >>

\* C38: a run aborted by an exception raised during forward execution or
\* during compensation leaves every user's memory as it was before the run;
\* the steps already executed are not compensated by the abort (an
\* exception in the forward loop is followed by no inverse step).
C38_AbortLeavesMemory ==
    AbortedInLoop =>
        /\ \A u \in Users : Memory(u) = mem0[u]
        /\ sumCalls = << >>
        /\ ~SomeFwdFailed => undoLog = << >> /\ ~Executed("undo", 1)

\* the first step ran and the second raised, in a run of a user who
\* already had a memory entry
C38_Witness ==
    /\ AbortedInLoop
    /\ FwdOk(1) /\ Len(fwdLog) = 2 /\ ~SomeFwdFailed
    /\ runs = 2 /\ Memory(author) # << >>

RECURSIVE SummariesUpTo(_)
SummariesUpTo(n) ==
    IF n = 0 THEN << >>
    ELSE SummariesUpTo(n - 1) \o <<FwdRecord(n), FwdNarration(n)>>

C31_Original ==
    (setup.pc # "analyze" /\ setup.analysis # "none"
        /\ setup.attempted = << >> /\ setup.n = 1) =>
        /\ setup.session.current_directory = NewSession("u1").current_directory
        /\ setup.session.environment_vars = NewSession("u1").environment_vars

\* C36 (as stated): a directory change without a path, a bare "cd", is
\* routed to the directory-change handler and replaces current_directory
\* with the user's home directory as the remote probe reports it.
C36_Original ==
    \A n \in 1..Len(Entries) :
        Entries[n].cmd = <<"cd">> =>
            /\ Entries[n].route = "cd"
            /\ Entries[n].job.kind = "probe"
            /\ JobOver(Entries[n].outcome) =>
                  Entries[n].after.current_directory
                      = NewSession("u1").current_directory

\* C32: while the run of one user is inside the polling loop of a remote
\* job, a run of a different user that waits at an await point (for the
\* Plan Compiler or for the answer of the Step Executor's model) can take
\* its next step.
C32_Original ==
    \A t \in Tasks, t2 \in Tasks :
        (/\ tasks[t].pc = "tool"
         /\ tasks[t2].pc \in {"plan", "step"}
         /\ tasks[t2].author # tasks[t].author) =>
            ENABLED (PlanReturns(t2) \/ StepExec(t2))

\* C33: the memory list handed to the Plan Compiler at the start of a run is
\* the memory of the run's author as it is at that moment, a memory only
\* ever grows by one entry at its end (the entry of a run of that user that
\* finished its plan), and the prompt carries the entries joined by
\* newlines in that order, or "None" for a user without an entry.
C33_MemoryHandedToPlanCompiler ==
    /\ [][\A t \in Tasks :
            (tasks[t].pc = "idle" /\ tasks'[t].pc = "plan") =>
                LET m == Memory(tasks'[t].author)
                IN  /\ tasks'[t].seen = m
                    /\ tasks'[t].prompt =
                          IF m = << >> THEN <<"None">>
                          ELSE [n \in 1..(2 * Len(m) - 1) |->
                                  IF n % 2 = 1 THEN m[(n + 1) \div 2]
                                  ELSE "\n"]]_vars
    /\ [][\A u \in Users :
            \/ user_state_dict'[u].memory = Memory(u)
            \/ \E t \in Tasks :
                  /\ tasks[t].pc = "append" /\ tasks[t].author = u
                  /\ user_state_dict'[u].memory = Append(Memory(u), <<t>>)]_vars

C33_Witness ==
    /\ tasks["t3"].pc = "plan" /\ tasks["t3"].author = "u1"
    /\ Len(tasks["t3"].seen) = 2
    /\ tasks["t3"].seen = << <<"t2">>, <<"t1">> >>
    /\ tasks["t3"].prompt = << <<"t2">>, "\n", <<"t1">> >>
    /\ tasks["t1"].pc = "done" /\ tasks["t2"].pc = "done"

\* -------------------------------------------- environment of a new session
\* initialize_conda and the commands that follow the constructor, for one
\* user: what the instance holds under the name {user}_env.
MaxCommands == 2

EnvStates == {"absent", "present"}

\* the check job of initialize_conda: a boto3 call throws, or the job is over
\* when its output is read, or the status queries run out first
CheckOutcomes == {Outcome(FALSE, st, "") : st \in StatusRuns} \cup {Thrown}

\* the send_command of the creation job returns or throws
CreateOutcomes == {Outcome(FALSE, << >>, ""), Thrown}

\* `conda env list | grep '{self.env}' || echo 'Environment not found'`
EnvListing(remote) ==
    IF remote = "present" THEN "env" ELSE "Environment not found"

\* initialize_conda: the check job is waited for and its output read;
\* the creation job is sent and the method returns
initialize_conda(remote, check, create) ==
    LET output == StandardOutputContent(check, EnvListing(remote))
        env_exists == output # "Environment not found"
    IN  IF check.raises
        THEN [raised |-> TRUE, env_exists |-> FALSE, create_sent |-> FALSE,
              remote |-> remote]
        ELSE IF env_exists
        THEN [raised |-> FALSE, env_exists |-> TRUE, create_sent |-> FALSE,
              remote |-> remote]
        ELSE IF create.raises
        THEN [raised |-> TRUE, env_exists |-> FALSE, create_sent |-> FALSE,
              remote |-> remote]
        ELSE [raised |-> FALSE, env_exists |-> FALSE, create_sent |-> TRUE,
              remote |-> "creating"]

ConstructCommands ==
    {<<"ls">>, <<"pwd">>, <<"cd", " ", "/srv">>, <<"X", "=", "1">>}

\* `conda run -n {self.env} bash -c ...` in an environment that is not there
\* fails and prints nothing on standard output
CommandOutcomes(cmd, remote) ==
    IF Route(cmd) = "normal" /\ remote # "present" THEN {FailedJob}
    ELSE OutcomesFor(cmd)

InitConstruct ==
    /\ RunnerIdle
    /\ posted = NoPost /\ setup = NoSetup /\ executed = NoStepCall
    /\ environment = NoEnvironment

ConstructFrame ==
    UNCHANGED <<user_state_dict, runs, pc, author, tool_calls, i, j,
                step_summaries, step_memory, tool_success, undo_failures,
                fwdLog, undoLog, execLog, sumCalls, replies, err, escaped,
                mem0, plan, thread, sessions, created, call, attempt,
                polled, waited, tasks, posted, setup, executed>>

\* PersistentSSMSession(user), from initialize_conda on
Construct ==
    /\ environment.pc = "none"
    /\ \E remote \in EnvStates, check \in CheckOutcomes,
          create \in CreateOutcomes :
          \E r \in {initialize_conda(remote, check, create)} :
             environment' =
                [pc |-> IF r.raised THEN "raised" ELSE "constructed",
                 remote |-> r.remote, at_return |-> r.remote,
                 env_exists |-> r.env_exists, create_sent |-> r.create_sent,
                 session |-> NewSession("u1"), ran |-> << >>]
    /\ ConstructFrame

\* the creation job ends on the instance, with or without the environment
CreateJob ==
    /\ environment.pc = "constructed"
    /\ environment.remote = "creating"
    /\ \E end \in {"present", "create_failed"} :
          environment' = [environment EXCEPT !.remote = end]
    /\ ConstructFrame

\* an execute_command call on the constructed session
RunCommand ==
    /\ environment.pc = "constructed"
    /\ Len(environment.ran) < MaxCommands
    /\ \E raw \in ConstructCommands :
          \E o \in CommandOutcomes(raw, environment.remote) :
             \E r \in {execute_command(environment.session, raw, <<o>>)} :
                environment' = [environment EXCEPT
                    !.session = r.session,
                    !.ran = Append(@, [raw |-> raw, route |-> Route(raw),
                                       seen |-> environment.remote,
                                       returned |-> r.call.returned])]
    /\ ConstructFrame

NextConstruct == Construct \/ CreateJob \/ RunCommand

SpecConstruct == InitConstruct /\ [][NextConstruct]_vars

\* C35: when the constructor returns, the environment was found to exist
\* or its creation job is over, and the first normal command of the session
\* runs with the environment in place.
C35_Original ==
    environment.pc = "constructed" =>
        /\ environment.env_exists \/ environment.at_return # "creating"
        /\ \A n \in 1..Len(environment.ran) :
              (/\ environment.ran[n].route = "normal"
               /\ \A m \in 1..(n - 1) : environment.ran[m].route # "normal") =>
                  environment.ran[n].seen = "present"

====
